---- MODULE Spec2Model ----
(***************************************************************************)
(* Model of the auto-advance record page of the video-interview platform   *)
(* (src/app/interview/[interview_id]/record/page.tsx): the React state of  *)
(* RecordPage, its effects, the handlers handleAutoAdvance, uploadVideo    *)
(* and retryFailedUploads, and the timers and network round-trips they     *)
(* await.  The JavaScript runtime is single-threaded: every action below   *)
(* is one task (a callback, a promise continuation up to its next await,   *)
(* or one React commit with its effects).  State setters are applied in    *)
(* the order they are called; what a closure sees is the state of the      *)
(* commit that created it, which is why the commit (Render) is a step of   *)
(* its own and why failedUploadsRef is a variable distinct from            *)
(* failedUploads.  The model follows the page until it navigates away.     *)
(*                                                                         *)
(* Next to the page (Spec, LiveSpec) the module follows, each under a      *)
(* specification of its own: the page with its elapsed-time interval       *)
(* (ClockSpec), the page with its Exit Interview button (ExitSpec), one    *)
(* instance of a component that opens the camera, i.e. either version of   *)
(* VideoRecorder or the preview page (RecorderSpec), and                   *)
(* generateQuestionOrder of src/lib/utils.ts (ShuffleSpec).                *)
(***************************************************************************)
EXTENDS Integers, Sequences, FiniteSets, TLC

\* ---------------------------------------------------------------- bounds
MaxQuestions == 3
\* the longest question order of the runs checked for liveness
MaxLiveQuestions == 2
\* the largest questionCount handed to generateQuestionOrder
MaxCount == 5
\* timeslice fragments one MediaRecorder delivers before it is stopped
MaxFragments == 2
\* MediaRecorder objects one component instance creates
MaxRecordings == 2
\* the time budget per question followed, in one-second ticks
SecondsPerQuestion == 3
\* the most questions of an interview whose advance decision is followed alone
MaxPresented == 8
\* the largest attempts counter whose wait is followed
MaxBackoffAttempts == 20
\* the most words of a question
MaxWords == 3
\* the most times one blob is submitted with the Next button
MaxSubmits == 2
\* the largest maxRetries a call of retryAPICall is made with
MaxRetriesTried == 3

\* ------------------------------------------------------- program constants
MaxAttempts == 3
MaxWait == 10000
PollInterval == 2000
Null == -1
\* VideoRecorder: the maxDuration the record pages pass, the shortest answer
maxDuration == 180
MIN_RECORDING_TIME == 5
FINISH_BUTTON_DELAY == 10

VARIABLES
  fetchPc,            \* position of fetchData: "interview", "candidate", "done"
  loading, error, interview, candidate, question_order,
  currentQuestionIndex, recordedBlob, uploading, uploadedCount,
  countdownSeconds, isCountingDown, canRecord, autoAdvancing,
  failedUploads, retryingUploads,
  advanceRef, failedUploadsRef,
  deps,               \* dependency values of the effects at the last commit
  renderPending,      \* a state update is scheduled and not yet committed
  effectsUpdated,     \* the pending update was made by the last commit's effects
  recorder,           \* the mounted VideoRecorder instance
  advanceTimer,       \* the 800 ms timer of the non-final path is pending
  inFlight,           \* first-attempt uploads awaiting their network reply
  passes,             \* executions of retryFailedUploads between awaits
  lastPc, waited,     \* position of the last-question path, ms polled so far
  route,              \* "record" until router.push, then "complete"
  successes,          \* history: successful uploads per <<blob, kind>>
  enqueued,           \* history: blobs the immediate failure handlers enqueued
  failureLog          \* history: log requests sent per question index

\* generateQuestionOrder (src/lib/utils.ts), run on its own
VARIABLES
  questionCount,      \* the argument of generateQuestionOrder
  shuffled,           \* the array shuffleArray is permuting
  shuffleI,           \* the loop variable i of shuffleArray
  shufflePc           \* "idle", "loop" or "returned"

shuffleVars == <<questionCount, shuffled, shuffleI, shufflePc>>

\* one component that opens the camera, run on its own: a VideoRecorder
\* instance (src/unnamed/part_000, both versions) or the preview page
VARIABLES
  owner,              \* "auto", "manual" (VideoRecorder) or "preview"; "none"
  ownerMounted,       \* the component has not been torn down
  autoStartRecording, \* the prop of the auto-start VideoRecorder
  getUserMediaPc,     \* "pending", "resolved" or "rejected"
  tracks,             \* tracks of the acquired stream: "none", "live", "stopped"
  videoRecorder,      \* the React state of the component
  mediaRecorders,     \* the MediaRecorder objects created, in creation order
  mediaRecorderRef,   \* index of mediaRecorderRef.current, 0 for null
  chunksRef,          \* chunksRef.current
  timerRef,           \* the 1 s recording interval is running
  finishTimer,        \* seconds since the Finish button timeout was set, or Null
  startCount,              \* the local count of handleStartClick, 0 without interval
  completions,        \* history: the blobs handed to onRecordingComplete
  acceptedStops       \* history: calls of MediaRecorder.stop() on a live recorder

recorderVars ==
  <<owner, ownerMounted, autoStartRecording, getUserMediaPc, tracks,
    videoRecorder, mediaRecorders, mediaRecorderRef, chunksRef, timerRef,
    finishTimer, startCount, completions, acceptedStops>>

\* the elapsed-time tracker of the record page, followed on its own
VARIABLES
  totalElapsedTime,   \* the state the one-second interval counts up
  ticksSinceLoad      \* history: ticks since interview and candidate loaded

clockVars == <<totalElapsedTime, ticksSinceLoad>>

\* the Exit Interview button of the record page, followed on its own
VARIABLES
  confirmAnswer       \* history: the last answer to window.confirm, or "none"

exitVars == <<confirmAnswer>>

\* the advance decision of handleAutoAdvance, followed on its own
VARIABLES
  candidateRecord,    \* the candidate data: hasOrder, question_order
  questionsLength,    \* interview.questions.length
  advanceIndex,       \* currentQuestionIndex when the blob is finalized
  advancePath         \* "none", then the branch taken: "last" or "next"

advanceVars == <<candidateRecord, questionsLength, advanceIndex, advancePath>>

\* the wait of retryFailedUploads before one retry, followed on its own
VARIABLES
  backoffAttempts,    \* failed.attempts of the entry about to be retried
  backoffDelay,       \* the delay handed to setTimeout, in ms; 0 before
  backoffElapsed,     \* ms since the timer was set
  backoffPc           \* "idle", "start", "waiting", "upload"

backoffVars == <<backoffAttempts, backoffDelay, backoffElapsed, backoffPc>>

\* the start of one recording on a given platform, followed on its own
VARIABLES
  startVariant,       \* "auto" or "manual": which VideoRecorder starts
  platformTypes,      \* the types MediaRecorder.isTypeSupported accepts
  startStream,        \* the stream state of the component: "null" or "set"
  startOutcome        \* called, isRecording, error, mimeType of the recorder

startVars == <<startVariant, platformTypes, startStream, startOutcome>>

\* one failed getUserMedia and its catch block, followed on their own
VARIABLES
  acquireOwner,       \* "auto", "manual" or "practice": whose catch block runs
  acquireName,        \* err.name
  acquireMessage,     \* err.message
  acquireError,       \* the error state of the component
  acquirePc           \* "idle", "pending", "rejected"

acquireVars ==
  <<acquireOwner, acquireName, acquireMessage, acquireError, acquirePc>>

\* the responses to the upload-failure log requests, followed on their own
VARIABLES
  logsSettled         \* log requests of the record page that have settled

logVars == <<logsSettled>>

\* the record page with the Next button (src/unnamed/part_002), on its own
VARIABLES
  manualPage,         \* its state: currentQuestionIndex, recordedBlob, ...
  manualCandidate,    \* candidate.question_order, <<>> until the data is loaded
  manualUploads,      \* calls of uploadVideo that have not settled
  manualRoute,        \* "record" until router.push, then "complete"
  manualSubmitted,    \* history: per blob, the runs of handleNext with it
  manualSucceeded     \* history: original indices of successful uploads

manualVars ==
  <<manualPage, manualCandidate, manualUploads, manualRoute, manualSubmitted,
    manualSucceeded>>

\* the upload route (POST /api/interview/[interview_id]/upload), on its own
VARIABLES
  uploadRequest,      \* the request handled last
  uploadResponse,     \* its response: status, and the token if one was issued
  uploadTokens,       \* history: payloads of the tokens issued
  uploadRecordings    \* history: payloads whose recording was saved

uploadVars == <<uploadRequest, uploadResponse, uploadTokens, uploadRecordings>>

\* one call of retryAPICall (src/lib/scoring.ts), on its own
VARIABLE
  retryCall           \* its parameters, loop variables and outcome

\* the state of the components modelled next to the record page
libVars ==
  <<shuffleVars, recorderVars, clockVars, exitVars, advanceVars, backoffVars,
                 startVars, acquireVars, logVars, manualVars, uploadVars,
                 retryCall>>

recordPageVars ==
  <<fetchPc, loading, error, interview, candidate, question_order,
          currentQuestionIndex, recordedBlob, uploading, uploadedCount,
          countdownSeconds, isCountingDown, canRecord, autoAdvancing,
          failedUploads,
          retryingUploads, advanceRef, failedUploadsRef, deps, renderPending,
          effectsUpdated, recorder, advanceTimer, inFlight, passes, lastPc, waited, route,
          successes, enqueued, failureLog>>

vars == <<recordPageVars, libVars>>

UploadKinds == {"background", "last", "retry"}

\* the question orders a candidate record can carry: for each length n the
\* identity and the reversal, two permutations of [0, n)
OrdersUpTo(max) ==
  UNION {{[i \in 1..n |-> i - 1], [i \in 1..n |-> n - i]} : n \in 1..max}

QuestionOrders == OrdersUpTo(MaxQuestions)

totalQuestions == Len(question_order)

\* FailedUpload { blob, questionIndex, attempts }
FailedUpload(blob, questionIndex, attempts) ==
  [blob |-> blob, questionIndex |-> questionIndex, attempts |-> attempts]

\* ------------------------------------------------------------ pure parts

\* handleAutoAdvance: isLastQuestion = currentQuestionIndex >= questionOrder.length - 1
isLastQuestion(index, questionOrder) == index >= Len(questionOrder) - 1

\* mutant of IsAbandoned: the comparison is off by one
IsAbandonedOffByOne(failed) == failed.attempts > MaxAttempts

\* retryFailedUploads: the entries that are logged and never uploaded again
IsAbandoned(failed) == failed.attempts >= MaxAttempts

\* mutant of PassStarts: retryingUploads is not consulted
PassStartsUnguarded(queue, retrying) == Len(queue) > 0

\* the retry effect's condition together with retryFailedUploads' own guard
PassStarts(queue, retrying) ==
  /\ Len(queue) > 0 /\ ~retrying
  /\ ~(retrying \/ Len(queue) = 0)

\* mutant of KeepsWaiting: the wait has no time limit
KeepsWaitingUnbounded(queueRef, elapsed) == Len(queueRef) > 0

\* the while condition of the last-question wait
KeepsWaiting(queueRef, elapsed) == Len(queueRef) > 0 /\ elapsed < MaxWait

\* The for loop of retryFailedUploads from position p.i up to its next await:
\* abandoned entries are pushed onto stillFailed and logged, without awaiting.
RECURSIVE RunToAwait(_)
RunToAwait(p) ==
  IF p.i > Len(p.uploadsToRetry) THEN p
  ELSE LET failed == p.uploadsToRetry[p.i] IN
       IF IsAbandoned(failed)
       THEN RunToAwait([p EXCEPT !.stillFailed = Append(@, failed),
                                 !.logged = Append(@, failed.questionIndex),
                                 !.i = @ + 1])
       ELSE p

\* the log requests of a pass step added to the history
RECURSIVE Logged(_, _)
Logged(log, qs) ==
  IF qs = <<>> THEN log
  ELSE Logged([log EXCEPT ![Head(qs)] = @ + 1], Tail(qs))

RemoveAt(s, k) == [j \in 1..(Len(s) - 1) |-> IF j < k THEN s[j] ELSE s[j + 1]]

\* ------------------------------------------------------------------ Init

PageInit ==
  /\ fetchPc = "interview"
  /\ loading = TRUE
  /\ error = ""
  /\ interview = FALSE
  /\ candidate = FALSE
  /\ question_order = <<>>
  /\ currentQuestionIndex = 0
  /\ recordedBlob = Null
  /\ uploading = FALSE
  /\ uploadedCount = 0
  /\ countdownSeconds = 30
  /\ isCountingDown = TRUE
  /\ canRecord = FALSE
  /\ autoAdvancing = FALSE
  /\ failedUploads = <<>>
  /\ retryingUploads = FALSE
  /\ advanceRef = FALSE
  /\ failedUploadsRef = <<>>
  /\ deps = [index |-> 0, interview |-> FALSE, candidate |-> FALSE,
             blob |-> Null, length |-> 0]
  /\ renderPending = FALSE
  /\ effectsUpdated = FALSE
  /\ recorder = [key |-> Null, autoStartRecording |-> FALSE, state |-> "unmounted"]
  /\ advanceTimer = FALSE
  /\ inFlight = {}
  /\ passes = <<>>
  /\ lastPc = "idle"
  /\ waited = 0
  /\ route = "record"
  /\ enqueued = {}
  /\ successes = [k \in (0..(MaxQuestions - 1)) \X UploadKinds |-> 0]
  /\ failureLog = [q \in 0..(MaxQuestions - 1) |-> 0]

\* generateQuestionOrder has not been called
ShuffleIdle ==
  /\ questionCount = 0
  /\ shuffled = <<>>
  /\ shuffleI = 0
  /\ shufflePc = "idle"

\* the React state of a camera component at its first render
FirstRender ==
  [stream |-> "null", isRecording |-> FALSE, recordedBlob |-> <<>>,
   recordingTime |-> 0, error |-> "", permissionGranted |-> FALSE,
   showFinishButton |-> FALSE, countdown |-> 0]

\* a camera component of the given kind has just mounted and asked for the
\* camera
Mount(kind) ==
  /\ owner = kind
  /\ ownerMounted = (kind # "none")
  /\ autoStartRecording = FALSE
  /\ getUserMediaPc = "pending"
  /\ tracks = "none"
  /\ videoRecorder = FirstRender
  /\ mediaRecorders = <<>>
  /\ mediaRecorderRef = 0
  /\ chunksRef = <<>>
  /\ timerRef = FALSE
  /\ finishTimer = Null
  /\ startCount = 0
  /\ completions = <<>>
  /\ acceptedStops = 0

\* const [totalElapsedTime, setTotalElapsedTime] = useState(0)
ClockInit == totalElapsedTime = 0 /\ ticksSinceLoad = 0

\* the confirmation dialog has not been shown
ExitInit == confirmAnswer = "none"

\* a candidate record without question_order
NoOrder == [hasOrder |-> FALSE, question_order |-> <<>>]

\* no advance decision is being followed
AdvanceIdle ==
  /\ candidateRecord = NoOrder
  /\ questionsLength = 0
  /\ advanceIndex = 0
  /\ advancePath = "none"

\* no wait is being followed
BackoffIdle ==
  /\ backoffAttempts = 0
  /\ backoffDelay = 0
  /\ backoffElapsed = 0
  /\ backoffPc = "idle"

\* startRecording has not been called: no recorder, no error
NotStarted == [called |-> FALSE, isRecording |-> FALSE, error |-> "", mimeType |-> ""]

\* no start is being followed
StartIdle ==
  /\ startVariant = "none"
  /\ platformTypes = {}
  /\ startStream = "null"
  /\ startOutcome = NotStarted

\* no acquisition is being followed
AcquireIdle ==
  /\ acquireOwner = "none"
  /\ acquireName = ""
  /\ acquireMessage = ""
  /\ acquireError = ""
  /\ acquirePc = "idle"

\* no log request has settled
LogIdle == logsSettled = 0

\* the page with the Next button after its first render
ManualInit ==
  /\ manualPage = [currentQuestionIndex |-> 0, recordedBlob |-> Null,
                   uploading |-> FALSE, error |-> "",
                   backgroundUploadError |-> "", uploadedCount |-> 0]
  /\ manualCandidate = <<>>
  /\ manualUploads = {}
  /\ manualRoute = "record"
  /\ manualSubmitted = [b \in 0..(MaxQuestions - 1) |-> 0]
  /\ manualSucceeded = {}

\* no request has reached the upload route
UploadIdle ==
  /\ uploadRequest = [type |-> "none", interview_id |-> Null,
                      candidate_id |-> Null, question_index |-> Null]
  /\ uploadResponse = [status |-> 0, token |-> {}]
  /\ uploadTokens = {}
  /\ uploadRecordings = {}

\* retryAPICall has not been called
RetryCallIdle ==
  retryCall = [pc |-> "idle", maxRetries |-> 0, delayMs |-> 0, attempt |-> 0,
               calls |-> 0, timer |-> 0, elapsed |-> 0, outcomes |-> <<>>,
               waits |-> <<>>]

\* the components next to the page are idle
LibIdle ==
  /\ RetryCallIdle
  /\ UploadIdle
  /\ ManualInit
  /\ LogIdle
  /\ AcquireIdle
  /\ StartIdle
  /\ ShuffleIdle /\ Mount("none") /\ ClockInit /\ ExitInit /\ AdvanceIdle
  /\ BackoffIdle

Init == PageInit /\ LibIdle

pageVars == <<loading, error, interview, candidate, question_order>>
questionVars == <<currentQuestionIndex, recordedBlob, uploading, countdownSeconds,
                  isCountingDown, canRecord, autoAdvancing, advanceRef>>
queueVars == <<failedUploads, retryingUploads, passes, failureLog>>
lastVars == <<lastPc, waited, route>>

Mounted == route = "record"

\* A task other than a commit runs: the page is mounted, and the commit React
\* schedules for updates made inside effects is not outstanding (it follows the
\* effects before any timer, network or media callback is served).
Task == Mounted /\ ~effectsUpdated

\* ------------------------------------------------------------- fetchData

FetchInterviewOk ==
  /\ Task /\ fetchPc = "interview"
  /\ UNCHANGED effectsUpdated
  /\ interview' = TRUE
  /\ fetchPc' = "candidate"
  /\ renderPending' = TRUE
  /\ UNCHANGED <<loading, error, candidate, question_order, questionVars,
                 uploadedCount, queueVars, failedUploadsRef, deps, recorder,
                 advanceTimer, inFlight, lastVars, successes, enqueued>>
  /\ UNCHANGED libVars

FetchCandidateOk(orders) ==
  /\ Task /\ fetchPc = "candidate"
  /\ UNCHANGED effectsUpdated
  /\ \E order \in orders : question_order' = order
  /\ candidate' = TRUE
  /\ loading' = FALSE
  /\ fetchPc' = "done"
  /\ renderPending' = TRUE
  /\ UNCHANGED <<error, interview, questionVars, uploadedCount, queueVars,
                 failedUploadsRef, deps, recorder, advanceTimer, inFlight,
                 lastVars, successes, enqueued>>
  /\ UNCHANGED libVars

FetchFails ==
  /\ Task /\ fetchPc \in {"interview", "candidate"}
  /\ UNCHANGED effectsUpdated
  /\ error' = IF fetchPc = "interview" THEN "Interview not found"
              ELSE "Candidate not found"
  /\ loading' = FALSE
  /\ fetchPc' = "done"
  /\ renderPending' = TRUE
  /\ UNCHANGED <<interview, candidate, question_order, questionVars,
                 uploadedCount, queueVars, failedUploadsRef, deps, recorder,
                 advanceTimer, inFlight, lastVars, successes, enqueued>>
  /\ UNCHANGED libVars

\* ----------------------------------------------------------- uploadVideo

\* uploadVideo: setUploadedCount(prev => prev + 1) once upload() has resolved
uploadVideo(count) == count + 1

\* the .then of the background upload: if (success) setUploadedCount(prev => prev + 1)
backgroundThen(count) == count + 1

\* handleAutoAdvance: const originalQuestionIndex = questionOrder[currentQuestionIndex]
originalQuestionIndexIsDisplay(questionOrder, index) == index
originalQuestionIndex(questionOrder, index) == questionOrder[index + 1]

Upload(blob, questionIndex, from) ==
  [blob |-> blob, questionIndex |-> questionIndex, from |-> from]

Succeeded(blob, from) == [successes EXCEPT ![<<blob, from>>] = @ + 1]

\* ---------------------------------------------------- the question timer

\* const readingTime = Math.ceil(words / 3) + 5
ReadingTime(words) == (words + 2) \div 3 + 5

\* the updater of the countdown interval: if (prev <= 1)
CountdownExpiredBelowZero(prev) == prev <= -1
CountdownExpired(prev) == prev <= 1

\* the countdown interval's tick that finds prev > 1: return prev - 1
CountdownTick ==
  /\ Task /\ isCountingDown /\ ~CountdownExpired(countdownSeconds)
  /\ UNCHANGED effectsUpdated
  /\ countdownSeconds' = countdownSeconds - 1
  /\ renderPending' = TRUE
  /\ UNCHANGED <<fetchPc, pageVars, currentQuestionIndex, recordedBlob, uploading,
                 isCountingDown, canRecord, autoAdvancing, advanceRef,
                 uploadedCount, queueVars, failedUploadsRef, deps, recorder,
                 advanceTimer, inFlight, lastVars, successes, enqueued>>
  /\ UNCHANGED libVars

\* the countdown interval's tick that finds prev <= 1
CountdownReachesZero ==
  /\ Task /\ isCountingDown /\ CountdownExpired(countdownSeconds)
  /\ UNCHANGED effectsUpdated
  /\ countdownSeconds' = 0
  /\ isCountingDown' = FALSE
  /\ canRecord' = TRUE
  /\ renderPending' = TRUE
  /\ UNCHANGED <<fetchPc, pageVars, currentQuestionIndex, recordedBlob, uploading,
                 autoAdvancing, advanceRef, uploadedCount, queueVars,
                 failedUploadsRef, deps, recorder, advanceTimer, inFlight,
                 lastVars, successes, enqueued>>
  /\ UNCHANGED libVars

\* the "Start Recording Now" button of the countdown overlay
handleManualStart ==
  /\ Task /\ isCountingDown /\ recorder.state # "unmounted"
  /\ UNCHANGED <<effectsUpdated, countdownSeconds>>
  /\ isCountingDown' = FALSE
  /\ canRecord' = TRUE
  /\ renderPending' = TRUE
  /\ UNCHANGED <<fetchPc, pageVars, currentQuestionIndex, recordedBlob, uploading,
                 autoAdvancing, advanceRef, uploadedCount, queueVars,
                 failedUploadsRef, deps, recorder, advanceTimer, inFlight,
                 lastVars, successes, enqueued>>
  /\ UNCHANGED libVars

\* ------------------------------------------------------- the VideoRecorder

\* getUserMedia resolves; the auto-start effect then sees the stream
StreamAcquired ==
  /\ Task /\ recorder.state = "nostream"
  /\ UNCHANGED effectsUpdated
  /\ recorder' = [recorder EXCEPT !.state =
                    IF recorder.autoStartRecording THEN "recording" ELSE "idle"]
  /\ UNCHANGED <<fetchPc, pageVars, questionVars, uploadedCount, queueVars,
                 failedUploadsRef, deps, renderPending, advanceTimer, inFlight,
                 lastVars, successes, enqueued>>
  /\ UNCHANGED libVars

\* mediaRecorder.onstop -> onRecordingComplete(blob) -> handleRecordingComplete
handleRecordingComplete ==
  /\ Task /\ recorder.state = "recording"
  /\ UNCHANGED effectsUpdated
  /\ recorder' = [recorder EXCEPT !.state = "complete"]
  /\ recordedBlob' = recorder.key
  /\ error' = ""
  /\ renderPending' = TRUE
  /\ UNCHANGED <<fetchPc, loading, interview, candidate, question_order,
                 currentQuestionIndex, uploading, countdownSeconds,
                 isCountingDown, canRecord,
                 autoAdvancing, advanceRef, uploadedCount, queueVars,
                 failedUploadsRef, deps, advanceTimer, inFlight, lastVars,
                 successes, enqueued>>
  /\ UNCHANGED libVars

\* ------------------------------------------------ a commit and its effects

\* the auto-advance effect:
\* if (recordedBlob && !uploading && !autoAdvancing && !advanceRef.current)
AutoAdvanceEffectUnguarded(blob, isUploading, advancing, ref) == TRUE
AutoAdvanceEffectAnyBlob(blob, isUploading, advancing, ref) ==
  ~isUploading /\ ~advancing /\ ~ref
AutoAdvanceEffect(blob, isUploading, advancing, ref) ==
  blob # Null /\ ~isUploading /\ ~advancing /\ ~ref

NewPass(queue) ==
  [uploadsToRetry |-> queue, stillFailed |-> <<>>, logged |-> <<>>, i |-> 1,
   pc |-> "backoff"]

Render ==
  /\ Mounted /\ renderPending
  /\ LET \* countdown effect, deps [currentQuestionIndex, interview, candidate]
         e1 == \/ deps.index # currentQuestionIndex
               \/ deps.interview # interview
               \/ deps.candidate # candidate
         refAfterE1 == IF e1 THEN FALSE ELSE advanceRef
         \* auto-advance effect, deps [recordedBlob]
         e3 == /\ deps.blob # recordedBlob
               /\ AutoAdvanceEffect(recordedBlob, uploading, autoAdvancing,
                                    refAfterE1)
         \* handleAutoAdvance past its early return
         adv == e3 /\ interview /\ candidate
         last == isLastQuestion(currentQuestionIndex, question_order)
         \* retry effect, deps [failedUploads.length]
         e4 == /\ deps.length # Len(failedUploads)
               /\ PassStarts(failedUploads, retryingUploads)
         p == RunToAwait(NewPass(failedUploads))
         passDone == p.i > Len(p.uploadsToRetry)
         shown == ~loading /\ interview /\ candidate
     IN
     /\ \E words \in 1..MaxWords :
          countdownSeconds' =
            IF ~e1 THEN countdownSeconds
            ELSE IF interview /\ candidate THEN ReadingTime(words) ELSE 30
     /\ isCountingDown' = IF e1 THEN TRUE ELSE isCountingDown
     /\ canRecord' = IF e1 THEN FALSE ELSE canRecord
     /\ recordedBlob' = IF e1 THEN Null ELSE recordedBlob
     /\ autoAdvancing' = IF adv THEN TRUE ELSE IF e1 THEN FALSE ELSE autoAdvancing
     /\ uploading' = IF adv /\ last THEN TRUE ELSE IF e1 THEN FALSE ELSE uploading
     /\ error' = IF adv /\ last THEN "" ELSE error
     /\ advanceRef' = IF e3 THEN TRUE ELSE refAfterE1
     /\ advanceTimer' = IF adv /\ ~last THEN TRUE ELSE advanceTimer
     /\ inFlight' =
          IF adv
          THEN inFlight \cup
                 {Upload(recordedBlob,
                         originalQuestionIndex(question_order, currentQuestionIndex),
                         IF last THEN "last" ELSE "background")}
          ELSE inFlight
     /\ lastPc' = IF adv /\ last THEN "race" ELSE lastPc
     /\ IF e4
        THEN /\ failureLog' = Logged(failureLog, p.logged)
             /\ IF passDone
                THEN /\ failedUploads' = p.stillFailed
                     /\ retryingUploads' = FALSE
                     /\ passes' = passes
                ELSE /\ failedUploads' = failedUploads
                     /\ retryingUploads' = TRUE
                     /\ passes' = Append(passes, [p EXCEPT !.logged = <<>>])
        ELSE UNCHANGED <<failureLog, failedUploads, retryingUploads, passes>>
     /\ failedUploadsRef' = failedUploads
     /\ deps' = [index |-> currentQuestionIndex, interview |-> interview,
                 candidate |-> candidate, blob |-> recordedBlob,
                 length |-> Len(failedUploads)]
     /\ recorder' =
          IF ~shown THEN recorder
          ELSE IF recorder.key # currentQuestionIndex
          THEN [key |-> currentQuestionIndex, autoStartRecording |-> canRecord,
                state |-> "nostream"]
          ELSE [recorder EXCEPT
                  !.autoStartRecording = canRecord,
                  !.state = IF @ = "idle" /\ canRecord /\ ~recorder.autoStartRecording
                            THEN "recording" ELSE @]
     /\ renderPending' =
          (<<countdownSeconds', isCountingDown', canRecord', recordedBlob',
             autoAdvancing', uploading',
             error', failedUploads', retryingUploads'>>
           # <<countdownSeconds, isCountingDown, canRecord, recordedBlob,
               autoAdvancing, uploading,
               error, failedUploads, retryingUploads>>)
     /\ effectsUpdated' = renderPending'
  /\ UNCHANGED <<fetchPc, loading, interview, candidate, question_order,
                 currentQuestionIndex, uploadedCount, waited, route, successes,
                 enqueued>>
  /\ UNCHANGED libVars

\* ------------------------------------------- handleAutoAdvance, non-final

\* the 800 ms timer is set before uploadVideo is called and is bound to
\* nothing the upload does
AdvanceDueAfterUpload(timer, uploads) ==
  timer /\ \A u \in uploads : u.from # "background"
AdvanceDue(timer, uploads) == timer

\* setCurrentQuestionIndex(prev => prev + 1)
NextQuestionIndexSkips(prev) == prev + 2
NextQuestionIndex(prev) == prev + 1

\* the 800 ms timer: next question, per-question state reset
AdvanceTimerFires ==
  /\ Task /\ AdvanceDue(advanceTimer, inFlight)
  /\ UNCHANGED effectsUpdated
  /\ advanceTimer' = FALSE
  /\ currentQuestionIndex' = NextQuestionIndex(currentQuestionIndex)
  /\ recordedBlob' = Null
  /\ autoAdvancing' = FALSE
  /\ uploading' = FALSE
  /\ renderPending' = TRUE
  /\ UNCHANGED <<fetchPc, pageVars, countdownSeconds, isCountingDown, canRecord,
                 advanceRef,
                 uploadedCount, queueVars, failedUploadsRef, deps, recorder,
                 inFlight, lastVars, successes, enqueued>>
  /\ UNCHANGED libVars

\* the background upload settles: uploadVideo's own continuation, then the .then
BackgroundUploadSettles(u, success) ==
  /\ Task /\ u \in inFlight /\ u.from = "background"
  /\ UNCHANGED effectsUpdated
  /\ inFlight' = inFlight \ {u}
  /\ IF success
     THEN /\ uploadedCount' = backgroundThen(uploadVideo(uploadedCount))
          /\ successes' = Succeeded(u.blob, "background")
          /\ UNCHANGED <<failedUploads, enqueued>>
     ELSE /\ failedUploads' = Append(failedUploads,
                                     FailedUpload(u.blob, u.questionIndex, 1))
          /\ enqueued' = enqueued \cup {u.blob}
          /\ UNCHANGED <<uploadedCount, successes>>
  /\ renderPending' = TRUE
  /\ UNCHANGED <<fetchPc, pageVars, questionVars, retryingUploads, passes,
                 failureLog, failedUploadsRef, deps, recorder, advanceTimer,
                 lastVars>>
  /\ UNCHANGED libVars

\* ------------------------------------------ handleAutoAdvance, last question

\* after await Promise.race(...): enqueue on failure, then choose the wait.
\* failedUploadsRef is read in the same task as the setFailedUploads call.
AfterRace(uploadSuccess, blob, questionIndex) ==
  /\ failedUploads' = IF ~uploadSuccess
                      THEN Append(failedUploads, FailedUpload(blob, questionIndex, 1))
                      ELSE failedUploads
  /\ lastPc' = IF Len(failedUploadsRef) > 0 THEN "poll" ELSE "quick"
  /\ enqueued' = IF ~uploadSuccess THEN enqueued \cup {blob} ELSE enqueued
  /\ error' = IF Len(failedUploadsRef) > 0 THEN "Finalizing" ELSE error
  /\ waited' = 0

\* the last-question upload settles, before or after the 5 s timeout
LastUploadSettles(u, success) ==
  /\ Task /\ u \in inFlight /\ u.from = "last"
  /\ UNCHANGED effectsUpdated
  /\ inFlight' = inFlight \ {u}
  /\ uploadedCount' = IF success THEN uploadVideo(uploadedCount) ELSE uploadedCount
  /\ successes' = IF success THEN Succeeded(u.blob, "last") ELSE successes
  /\ IF lastPc = "race"
     THEN AfterRace(success, u.blob, u.questionIndex)
     ELSE UNCHANGED <<failedUploads, lastPc, error, waited, enqueued>>
  /\ renderPending' = TRUE
  /\ UNCHANGED <<fetchPc, loading, interview, candidate, question_order,
                 questionVars, retryingUploads, passes, failureLog,
                 failedUploadsRef, deps, recorder, advanceTimer, route>>
  /\ UNCHANGED libVars

\* the 5 s timer wins the race; the upload goes on unobserved
LastUploadTimeout ==
  /\ Task /\ lastPc = "race"
  /\ UNCHANGED effectsUpdated
  /\ \E u \in inFlight :
       /\ u.from = "last"
       /\ AfterRace(FALSE, u.blob, u.questionIndex)
  /\ renderPending' = TRUE
  /\ UNCHANGED <<fetchPc, loading, interview, candidate, question_order,
                 questionVars, uploadedCount, retryingUploads, passes, failureLog,
                 failedUploadsRef, deps, recorder, advanceTimer, inFlight, route,
                 successes>>
  /\ UNCHANGED libVars

\* one 2 s sleep of the while loop ends; on leaving the loop, router.push
PollTimerFires ==
  /\ Task /\ lastPc = "poll"
  /\ UNCHANGED effectsUpdated
  /\ LET elapsed == IF waited + PollInterval > MaxWait THEN MaxWait
                    ELSE waited + PollInterval
     IN /\ waited' = elapsed
        /\ IF KeepsWaiting(failedUploadsRef, elapsed)
           THEN UNCHANGED <<lastPc, route>>
           ELSE lastPc' = "done" /\ route' = "complete"
  /\ UNCHANGED <<fetchPc, pageVars, questionVars, uploadedCount, queueVars,
                 failedUploadsRef, deps, renderPending, recorder, advanceTimer,
                 inFlight, successes, enqueued>>
  /\ UNCHANGED libVars

\* "No pending uploads - quick completion": 2 s, then router.push
QuickTimerFires ==
  /\ Task /\ lastPc = "quick"
  /\ UNCHANGED effectsUpdated
  /\ lastPc' = "done"
  /\ route' = "complete"
  /\ UNCHANGED <<fetchPc, pageVars, questionVars, uploadedCount, queueVars,
                 failedUploadsRef, deps, renderPending, recorder, advanceTimer,
                 inFlight, waited, successes, enqueued>>
  /\ UNCHANGED libVars

\* ----------------------------------------------------- retryFailedUploads

\* the loop goes on after entry p.i was handled; at the end of the list the pass
\* writes stillFailed back and releases retryingUploads
ContinuePassHoldingFlag(k, handled) ==
  LET p == RunToAwait([handled EXCEPT !.i = @ + 1])
  IN /\ failureLog' = Logged(failureLog, p.logged)
     /\ IF p.i > Len(p.uploadsToRetry)
        THEN /\ passes' = RemoveAt(passes, k)
             /\ failedUploads' = p.stillFailed
             /\ UNCHANGED retryingUploads
        ELSE /\ passes' = [passes EXCEPT ![k] = [p EXCEPT !.logged = <<>>,
                                                          !.pc = "backoff"]]
             /\ UNCHANGED <<failedUploads, retryingUploads>>
ContinuePass(k, handled) ==
  LET p == RunToAwait([handled EXCEPT !.i = @ + 1])
  IN /\ failureLog' = Logged(failureLog, p.logged)
     /\ IF p.i > Len(p.uploadsToRetry)
        THEN /\ passes' = RemoveAt(passes, k)
             /\ failedUploads' = p.stillFailed
             /\ retryingUploads' = FALSE
        ELSE /\ passes' = [passes EXCEPT ![k] = [p EXCEPT !.logged = <<>>,
                                                          !.pc = "backoff"]]
             /\ UNCHANGED <<failedUploads, retryingUploads>>

\* the backoff timer of the current entry fires: uploadVideo is called
BackoffTimerFires(k) ==
  /\ Task /\ k \in 1..Len(passes) /\ passes[k].pc = "backoff"
  /\ UNCHANGED effectsUpdated
  /\ passes' = [passes EXCEPT ![k].pc = "upload"]
  /\ UNCHANGED <<fetchPc, pageVars, questionVars, uploadedCount, failedUploads,
                 retryingUploads, failureLog, failedUploadsRef, deps,
                 renderPending, recorder, advanceTimer, inFlight, lastVars,
                 successes, enqueued>>
  /\ UNCHANGED libVars

\* stillFailed.push({ ...failed, attempts: failed.attempts + 1 })
RequeuedSameAttempts(failed) == failed
Requeued(failed) == [failed EXCEPT !.attempts = @ + 1]

\* the retried upload settles
RetryUploadSettles(k, success) ==
  /\ Task /\ k \in 1..Len(passes) /\ passes[k].pc = "upload"
  /\ UNCHANGED effectsUpdated
  /\ LET p == passes[k]
         failed == p.uploadsToRetry[p.i]
     IN /\ uploadedCount' = IF success THEN uploadVideo(uploadedCount)
                            ELSE uploadedCount
        /\ successes' = IF success THEN Succeeded(failed.blob, "retry") ELSE successes
        /\ ContinuePass(k, IF success THEN p
                           ELSE [p EXCEPT !.stillFailed =
                                   Append(@, Requeued(failed))])
  /\ renderPending' = TRUE
  /\ UNCHANGED <<fetchPc, pageVars, questionVars, failedUploadsRef, deps,
                 recorder, advanceTimer, inFlight, lastVars, enqueued>>
  /\ UNCHANGED libVars

\* ------------------------------------------------------------------ Next

PageStep ==
  \/ FetchInterviewOk
  \/ FetchFails
  \/ CountdownTick
  \/ CountdownReachesZero
  \/ handleManualStart
  \/ StreamAcquired
  \/ handleRecordingComplete
  \/ Render
  \/ AdvanceTimerFires
  \/ \E u \in inFlight, success \in BOOLEAN : BackgroundUploadSettles(u, success)
  \/ \E u \in inFlight, success \in BOOLEAN : LastUploadSettles(u, success)
  \/ LastUploadTimeout
  \/ PollTimerFires
  \/ QuickTimerFires
  \/ \E k \in 1..Len(passes) : BackoffTimerFires(k)
  \/ \E k \in 1..Len(passes), success \in BOOLEAN : RetryUploadSettles(k, success)

Next == FetchCandidateOk(QuestionOrders) \/ PageStep

Spec == Init /\ [][Next]_vars

\* the interviews of at most MaxLiveQuestions questions
LiveNext == FetchCandidateOk(OrdersUpTo(MaxLiveQuestions)) \/ PageStep

\* the timers fire and scheduled commits happen; no upload is required to settle
LiveSpec ==
  /\ Init /\ [][LiveNext]_vars
  /\ WF_vars(Render)
  /\ WF_vars(AdvanceTimerFires)
  /\ WF_vars(LastUploadTimeout)
  /\ WF_vars(PollTimerFires)
  /\ WF_vars(QuickTimerFires)

\* as LiveSpec, and every backoff timer fires and every retried upload settles
RetrySpec ==
  /\ LiveSpec
  /\ WF_vars(\E k \in 1..Len(passes) : BackoffTimerFires(k))
  /\ WF_vars(\E k \in 1..Len(passes), success \in BOOLEAN :
               RetryUploadSettles(k, success))

\* what RecordPage returns: the render guards before the question view
View ==
  IF loading THEN "loading"
  ELSE IF error # "" /\ ~interview THEN "error"
  ELSE IF ~interview \/ ~candidate THEN "null"
  ELSE "question"

\* --------------------------------------- the page with its elapsed time

\* the ticks followed: one more than the budget of the longest interview
MaxElapsed == SecondsPerQuestion * MaxLiveQuestions + 1

\* the interval of the mount effect: setTotalElapsedTime(prev => prev + 1);
\* it is cleared when the page is left
ElapsedTick ==
  /\ Mounted /\ totalElapsedTime < MaxElapsed
  /\ totalElapsedTime' = totalElapsedTime + 1
  /\ ticksSinceLoad' = IF interview /\ candidate THEN ticksSinceLoad + 1
                       ELSE ticksSinceLoad
  /\ UNCHANGED <<recordPageVars, shuffleVars, recorderVars, exitVars,
                 advanceVars, backoffVars, startVars, acquireVars, logVars,
                 manualVars, uploadVars, retryCall>>

ClockNext ==
  FetchCandidateOk(OrdersUpTo(MaxLiveQuestions)) \/ PageStep \/ ElapsedTick

ClockSpec == Init /\ [][ClockNext]_vars

\* ------------------------------------------ the page with its Exit button

\* window.confirm(...) returns the user's answer
ConfirmIgnored(answer) == TRUE
Confirm(answer) == answer

\* the Exit Interview button of the question view: confirm, then router.push
\* to the landing page
ExitInterview(answer) ==
  /\ Task /\ View = "question"
  /\ confirmAnswer' = IF answer THEN "confirmed" ELSE "declined"
  /\ route' = IF Confirm(answer) THEN "landing" ELSE route
  /\ UNCHANGED <<fetchPc, pageVars, questionVars, uploadedCount, queueVars,
                 failedUploadsRef, deps, renderPending, effectsUpdated, recorder,
                 advanceTimer, inFlight, lastPc, waited, successes, enqueued,
                 shuffleVars, recorderVars, clockVars, advanceVars, backoffVars,
                 startVars, acquireVars, logVars, manualVars, uploadVars,
                 retryCall>>

ExitNext ==
  \/ FetchCandidateOk(OrdersUpTo(MaxLiveQuestions))
  \/ PageStep
  \/ \E answer \in BOOLEAN : ExitInterview(answer)

ExitSpec == Init /\ [][ExitNext]_vars

\* ------------------------------- the failure log requests followed

\* log requests sent for the question indices 0..q
RECURSIVE LogsSentUpTo(_)
LogsSentUpTo(q) == IF q < 0 THEN 0 ELSE failureLog[q] + LogsSentUpTo(q - 1)

LogsSent == LogsSentUpTo(MaxQuestions - 1)

\* how fetch('/api/log-upload-failure') settles: the route answers 200 or,
\* without its required fields, 400; the request itself can fail
LogOutcomes == {"ok", "bad request", "rejected"}

\* .catch(err => console.error('Failed to log:', err)), and no .then: the
\* page's error state after the request has settled
AfterLogRaises(err, outcome) == IF outcome = "rejected" THEN "log failed" ELSE err
AfterLog(err, outcome) == err

\* one log request settles
LogRequestSettles(outcome) ==
  /\ Mounted /\ logsSettled < LogsSent
  /\ logsSettled' = logsSettled + 1
  /\ error' = AfterLog(error, outcome)
  /\ UNCHANGED <<fetchPc, loading, interview, candidate, question_order,
                 questionVars, uploadedCount, queueVars, failedUploadsRef, deps,
                 renderPending, effectsUpdated, recorder, advanceTimer, inFlight,
                 lastVars, successes, enqueued>>
  /\ UNCHANGED <<shuffleVars, recorderVars, clockVars, exitVars, advanceVars,
                 backoffVars, startVars, acquireVars, manualVars, uploadVars,
                 retryCall>>

LogNext ==
  \/ FetchCandidateOk(QuestionOrders)
  \/ PageStep
  \/ \E outcome \in LogOutcomes : LogRequestSettles(outcome)

LogSpec == Init /\ [][LogNext]_vars

\* ------------------------------- the page with the Next button on its own
\* RecordPage of src/unnamed/part_002.  Its VideoRecorder is keyed by
\* currentQuestionIndex and records once per mount, so a blob is named by the
\* position it was recorded at.  The page stops at router.push.

ManualMounted == manualRoute = "record"

\* fetchData: setInterview, setCandidate
ManualFetchOk(order) ==
  /\ ManualMounted /\ manualCandidate = <<>>
  /\ manualCandidate' = order
  /\ UNCHANGED <<manualPage, manualUploads, manualRoute, manualSubmitted,
                 manualSucceeded>>
  /\ UNCHANGED <<recordPageVars, shuffleVars, recorderVars, clockVars,
                 exitVars, advanceVars, backoffVars, startVars, acquireVars,
                 logVars, uploadVars, retryCall>>

\* handleRecordingComplete of the page, called by the VideoRecorder of the
\* current question, which has not recorded yet
ManualRecordingComplete ==
  /\ ManualMounted /\ manualCandidate # <<>>
  /\ manualPage.recordedBlob = Null
  /\ manualPage' = [manualPage EXCEPT
                      !.recordedBlob = manualPage.currentQuestionIndex,
                      !.error = "", !.backgroundUploadError = ""]
  /\ UNCHANGED <<manualCandidate, manualUploads, manualRoute, manualSubmitted,
                 manualSucceeded>>
  /\ UNCHANGED <<recordPageVars, shuffleVars, recorderVars, clockVars,
                 exitVars, advanceVars, backoffVars, startVars, acquireVars,
                 logVars, uploadVars, retryCall>>

\* the Next button: disabled={!recordedBlob || uploading}
NextEnabled(page) == page.recordedBlob # Null /\ ~page.uploading

ManualUpload(blob, questionIndex, last) ==
  [blob |-> blob, questionIndex |-> questionIndex, last |-> last]

handleNext ==
  /\ ManualMounted /\ NextEnabled(manualPage)
  /\ manualCandidate # <<>>
  /\ manualSubmitted[manualPage.recordedBlob] < MaxSubmits
  /\ LET index == manualPage.currentQuestionIndex
         currentBlob == manualPage.recordedBlob
         original == originalQuestionIndex(manualCandidate, index)
         last == isLastQuestion(index, manualCandidate)
     IN /\ manualPage' =
             IF last
             THEN [manualPage EXCEPT !.uploading = TRUE, !.error = "",
                                     !.backgroundUploadError = ""]
             ELSE [manualPage EXCEPT !.uploading = FALSE, !.error = "",
                                     !.backgroundUploadError = "",
                                     !.currentQuestionIndex = index + 1,
                                     !.recordedBlob = Null]
        /\ manualUploads' =
             manualUploads \cup {ManualUpload(currentBlob, original, last)}
        /\ manualSubmitted' = [manualSubmitted EXCEPT ![currentBlob] = @ + 1]
  /\ UNCHANGED <<manualCandidate, manualRoute, manualSucceeded>>
  /\ UNCHANGED <<recordPageVars, shuffleVars, recorderVars, clockVars,
                 exitVars, advanceVars, backoffVars, startVars, acquireVars,
                 logVars, uploadVars, retryCall>>

\* if (uploadSuccess) router.push(...complete...)
ManualNavigatesAnyway(uploadSuccess) == TRUE
ManualNavigates(uploadSuccess) == uploadSuccess

\* uploadVideo settles; for the last question handleNext goes on after its await
ManualUploadSettles(u, uploadSuccess) ==
  /\ ManualMounted /\ u \in manualUploads
  /\ manualUploads' = manualUploads \ {u}
  /\ manualSucceeded' = IF uploadSuccess
                         THEN manualSucceeded \cup {u.questionIndex}
                         ELSE manualSucceeded
  /\ LET uploaded ==
           IF uploadSuccess
           THEN [manualPage EXCEPT !.uploadedCount = @ + 1]
           ELSE [manualPage EXCEPT !.backgroundUploadError = "Upload failed"]
     IN IF u.last
        THEN IF ManualNavigates(uploadSuccess)
             THEN manualRoute' = "complete" /\ manualPage' = uploaded
             ELSE /\ manualRoute' = manualRoute
                  /\ manualPage' =
                       [uploaded EXCEPT
                          !.error = "Failed to upload final answer",
                          !.uploading = FALSE]
        ELSE /\ manualRoute' = manualRoute
             /\ manualPage' =
                  IF uploadSuccess THEN uploaded
                  ELSE [uploaded EXCEPT
                          !.backgroundUploadError = "Retrying in background"]
  /\ UNCHANGED <<manualCandidate, manualSubmitted>>
  /\ UNCHANGED <<recordPageVars, shuffleVars, recorderVars, clockVars,
                 exitVars, advanceVars, backoffVars, startVars, acquireVars,
                 logVars, uploadVars, retryCall>>

ManualNext ==
  \/ \E order \in QuestionOrders : ManualFetchOk(order)
  \/ ManualRecordingComplete
  \/ handleNext
  \/ \E u \in manualUploads, uploadSuccess \in BOOLEAN :
       ManualUploadSettles(u, uploadSuccess)

ManualSpec == Init /\ [][ManualNext]_vars

\* ------------------------------- the upload route on its own
\* handleUpload (@vercel/blob/client) calls onBeforeGenerateToken for a token
\* request and onUploadCompleted, with the payload of a token it issued, for
\* the completion callback; what either throws reaches the route's catch.

\* the Recording Store: the candidates registered, as <<interview, candidate>>,
\* and the lookup `await getCandidate(interview_id, candidateId)`
getCandidate(interview_id, candidateId) ==
  <<interview_id, candidateId>> \in {<<1, 1>>, <<2, 2>>}

\* onBeforeGenerateToken: the token payload, or nothing when it throws;
\* candidateId and questionIndex are Null when the query parameter is missing
onBeforeGenerateTokenUnchecked(interview_id, candidateId, questionIndex) ==
  {[interview_id |-> interview_id, candidate_id |-> candidateId,
    question_index |-> questionIndex]}
onBeforeGenerateToken(interview_id, candidateId, questionIndex) ==
  IF candidateId = Null THEN {}
  ELSE IF ~getCandidate(interview_id, candidateId) THEN {}
  ELSE {[interview_id |-> interview_id, candidate_id |-> candidateId,
         question_index |-> questionIndex]}

\* POST with a token request; storeUp is false when the store's call throws
UploadPost(interview_id, candidateId, questionIndex, storeUp) ==
  LET token == IF candidateId # Null /\ ~storeUp THEN {}
               ELSE onBeforeGenerateToken(interview_id, candidateId,
                                          questionIndex)
  IN /\ uploadRequest' = [type |-> "token", interview_id |-> interview_id,
                          candidate_id |-> candidateId,
                          question_index |-> questionIndex]
     /\ uploadResponse' = [status |-> IF token = {} THEN 500 ELSE 200,
                           token |-> token]
     /\ uploadTokens' = uploadTokens \cup token
     /\ UNCHANGED uploadRecordings
     /\ UNCHANGED <<recordPageVars, shuffleVars, recorderVars, clockVars,
                    exitVars, advanceVars, backoffVars, startVars,
                    acquireVars, logVars, manualVars, retryCall>>

\* POST with the completion callback of an upload made with token t;
\* a failing saveRecording is caught and logged
onUploadCompleted(t, saved) ==
  /\ t \in uploadTokens
  /\ uploadRequest' = [type |-> "completed", interview_id |-> t.interview_id,
                       candidate_id |-> t.candidate_id,
                       question_index |-> t.question_index]
  /\ uploadResponse' = [status |-> 200, token |-> {}]
  /\ uploadRecordings' = IF saved THEN uploadRecordings \cup {t}
                          ELSE uploadRecordings
  /\ UNCHANGED uploadTokens
  /\ UNCHANGED <<recordPageVars, shuffleVars, recorderVars, clockVars,
                 exitVars, advanceVars, backoffVars, startVars, acquireVars,
                 logVars, manualVars, retryCall>>

UploadNext ==
  \/ \E interview_id \in 1..2, candidateId \in {Null, 1, 2},
        questionIndex \in {Null, 0, 1}, storeUp \in BOOLEAN :
       UploadPost(interview_id, candidateId, questionIndex, storeUp)
  \/ \E t \in uploadTokens, saved \in BOOLEAN : onUploadCompleted(t, saved)

UploadSpec == Init /\ [][UploadNext]_vars

\* ------------------------------- retryAPICall on its own
\* retryCall.pc is "call" while fn's promise is pending, "wait" during the
\* setTimeout, "returned" or "thrown" at the end; outcomes lists what the calls
\* of fn settled with, waits the delays passed to setTimeout.  Time passes in
\* steps of 500 ms; a timer fires when its delay has passed.

\* message.includes(s)
Includes(message, s) ==
  \E i \in 1..(Len(message) - Len(s) + 1) :
    SubSeq(message, i, i + Len(s) - 1) = s

\* isRetryable; status is Null when the error has none
isRetryableAlways(lastError) == TRUE
isRetryable(lastError) ==
  \/ Includes(lastError.message, "fetch failed")
  \/ Includes(lastError.message, "ECONNRESET")
  \/ lastError.status = 429
  \/ lastError.status >= 500

\* the call: a Null argument is an omitted one; attempt = 1 and fn is called
retryAPICall(maxRetries, delayMs) ==
  /\ retryCall.pc = "idle"
  /\ retryCall' = [retryCall EXCEPT
                     !.pc = "call",
                     !.maxRetries = IF maxRetries = Null THEN 2 ELSE maxRetries,
                     !.delayMs = IF delayMs = Null THEN 1000 ELSE delayMs,
                     !.attempt = 1, !.calls = 1]
  /\ UNCHANGED <<recordPageVars, shuffleVars, recorderVars, clockVars,
                 exitVars, advanceVars, backoffVars, startVars, acquireVars,
                 logVars, manualVars, uploadVars>>

\* fn settles: return its value, or catch its error
FnSettles(outcome) ==
  /\ retryCall.pc = "call"
  /\ LET settled == [retryCall EXCEPT !.outcomes = Append(@, outcome)]
         attempt == retryCall.attempt
     IN retryCall' =
          IF outcome.kind = "value"
          THEN [settled EXCEPT !.pc = "returned"]
          ELSE IF ~isRetryable(outcome) \/ attempt = retryCall.maxRetries
          THEN [settled EXCEPT !.pc = "thrown"]
          ELSE [settled EXCEPT !.pc = "wait",
                               !.timer = retryCall.delayMs * attempt,
                               !.elapsed = 0,
                               !.waits = Append(@, retryCall.delayMs * attempt)]
  /\ UNCHANGED <<recordPageVars, shuffleVars, recorderVars, clockVars,
                 exitVars, advanceVars, backoffVars, startVars, acquireVars,
                 logVars, manualVars, uploadVars>>

\* 500 ms pass, or the timer, being due, fires: attempt++ and fn is called
RetryTimer ==
  /\ retryCall.pc = "wait"
  /\ retryCall' =
       IF retryCall.elapsed < retryCall.timer
       THEN [retryCall EXCEPT !.elapsed = @ + 500]
       ELSE [retryCall EXCEPT !.pc = "call", !.attempt = @ + 1,
                              !.calls = @ + 1]
  /\ UNCHANGED <<recordPageVars, shuffleVars, recorderVars, clockVars,
                 exitVars, advanceVars, backoffVars, startVars, acquireVars,
                 logVars, manualVars, uploadVars>>

RetryCallNext ==
  \/ \E maxRetries \in {Null} \cup 1..MaxRetriesTried,
        delayMs \in {Null, 500} : retryAPICall(maxRetries, delayMs)
  \/ \E kind \in {"value", "error"},
        message \in {"TypeError: fetch failed", "read ECONNRESET",
                     "Bad request"},
        status \in {Null, 400, 429, 500, 503} :
       FnSettles([kind |-> kind, message |-> message, status |-> status])
  \/ RetryTimer

RetryCallSpec == Init /\ [][RetryCallNext]_vars

\* ------------------------------- the advance decision on its own

\* the render: candidate.question_order || Array.from({ length:
\* interview.questions.length }, (_, i) => i)
RenderQuestionOrder(c, length) ==
  IF c.hasOrder THEN c.question_order ELSE [k \in 1..length |-> k - 1]

\* handleAutoAdvance: candidate.question_order || []
AdvanceQuestionOrder(c) == IF c.hasOrder THEN c.question_order ELSE <<>>

\* handleAutoAdvance past its early return: if (isLastQuestion) ... else ...
AdvanceDecision ==
  /\ advancePath = "none"
  /\ advancePath' =
       IF isLastQuestion(advanceIndex, AdvanceQuestionOrder(candidateRecord))
       THEN "last" ELSE "next"
  /\ UNCHANGED <<candidateRecord, questionsLength, advanceIndex, recordPageVars,
                 shuffleVars, recorderVars, clockVars, exitVars, backoffVars,
                 startVars, acquireVars, logVars, manualVars, uploadVars,
                 retryCall>>

\* an interview of 1..MaxPresented questions, a candidate with an order over
\* them or without one, and a position among the questions presented
AdvanceInit ==
  /\ RetryCallIdle
  /\ UploadIdle
  /\ ManualInit
  /\ LogIdle
  /\ AcquireIdle
  /\ StartIdle
  /\ PageInit /\ ShuffleIdle /\ Mount("none") /\ ClockInit /\ ExitInit
  /\ BackoffIdle
  /\ questionsLength \in 1..MaxPresented
  /\ candidateRecord \in
       {NoOrder} \cup {[hasOrder |-> TRUE, question_order |-> o] :
                         o \in {q \in OrdersUpTo(MaxPresented) :
                                  Len(q) = questionsLength}}
  /\ advanceIndex \in
       0..(Len(RenderQuestionOrder(candidateRecord, questionsLength)) - 1)
  /\ advancePath = "none"

AdvanceSpec == AdvanceInit /\ [][AdvanceDecision]_vars

\* ------------------------------------------- src/lib/utils.ts on its own

\* Array.from({ length: questionCount }, (_, i) => i)
indices(count) == [k \in 1..count |-> k - 1]

\* Math.floor(Math.random() * (i + 1)) with Math.random() in [0, 1)
RandomIndex(i) == 0..i

\* [shuffled[i], shuffled[j]] = [shuffled[j], shuffled[i]], 0-based i and j
SwapOverwrites(array, i, j) == [array EXCEPT ![i + 1] = array[j + 1]]
Swap(array, i, j) ==
  [array EXCEPT ![i + 1] = array[j + 1], ![j + 1] = array[i + 1]]

\* generateQuestionOrder builds the indices; shuffleArray copies them and
\* starts its loop at i = length - 1
generateQuestionOrder ==
  /\ shufflePc = "idle"
  /\ shuffled' = indices(questionCount)
  /\ shuffleI' = questionCount - 1
  /\ shufflePc' = "loop"
  /\ UNCHANGED <<questionCount, recordPageVars, recorderVars, clockVars, exitVars,
                 advanceVars, backoffVars, startVars, acquireVars, logVars,
                 manualVars, uploadVars, retryCall>>

\* one iteration of the loop of shuffleArray
ShuffleStep ==
  /\ shufflePc = "loop" /\ shuffleI > 0
  /\ \E j \in RandomIndex(shuffleI) : shuffled' = Swap(shuffled, shuffleI, j)
  /\ shuffleI' = shuffleI - 1
  /\ UNCHANGED <<questionCount, shufflePc, recordPageVars, recorderVars, clockVars, exitVars,
                 advanceVars, backoffVars, startVars, acquireVars, logVars,
                 manualVars, uploadVars, retryCall>>

\* the loop condition i > 0 fails: return shuffled
ShuffleReturn ==
  /\ shufflePc = "loop" /\ ~(shuffleI > 0)
  /\ shufflePc' = "returned"
  /\ UNCHANGED <<questionCount, shuffled, shuffleI, recordPageVars, recorderVars, clockVars, exitVars,
                 advanceVars, backoffVars, startVars, acquireVars, logVars,
                 manualVars, uploadVars, retryCall>>

ShuffleInit ==
  /\ RetryCallIdle
  /\ UploadIdle
  /\ ManualInit
  /\ LogIdle
  /\ AcquireIdle
  /\ StartIdle
  /\ PageInit /\ Mount("none") /\ ClockInit /\ ExitInit /\ AdvanceIdle
  /\ BackoffIdle
  /\ questionCount \in 0..MaxCount
  /\ shuffled = <<>>
  /\ shuffleI = 0
  /\ shufflePc = "idle"

ShuffleNext == generateQuestionOrder \/ ShuffleStep \/ ShuffleReturn

ShuffleSpec == ShuffleInit /\ [][ShuffleNext]_vars

\* ------------------------------- the wait before a retry on its own

\* Math.pow(2, n) for n >= 0
RECURSIVE Pow2(_)
Pow2(n) == IF n = 0 THEN 1 ELSE 2 * Pow2(n - 1)

\* Math.min
Min(a, b) == IF a <= b THEN a ELSE b

\* const delay = Math.min(1000 * Math.pow(2, failed.attempts - 1), 5000)
BackoffDelayUncapped(attempts) == 1000 * Pow2(attempts - 1)
BackoffDelay(attempts) == Min(1000 * Pow2(attempts - 1), 5000)

\* the delay is computed and handed to setTimeout
SetBackoffTimer ==
  /\ backoffPc = "start"
  /\ backoffDelay' = BackoffDelay(backoffAttempts)
  /\ backoffPc' = "waiting"
  /\ UNCHANGED <<backoffAttempts, backoffElapsed, recordPageVars, shuffleVars,
                 recorderVars, clockVars, exitVars, advanceVars, startVars,
                 acquireVars, logVars, manualVars, uploadVars, retryCall>>

\* a second of the wait passes
BackoffSecondPasses ==
  /\ backoffPc = "waiting" /\ backoffElapsed < backoffDelay
  /\ backoffElapsed' = backoffElapsed + 1000
  /\ UNCHANGED <<backoffAttempts, backoffDelay, backoffPc, recordPageVars,
                 shuffleVars, recorderVars, clockVars, exitVars, advanceVars,
                 startVars, acquireVars, logVars, manualVars, uploadVars,
                 retryCall>>

\* the timer fires and the promise resolves: uploadVideo is called next
BackoffElapses ==
  /\ backoffPc = "waiting" /\ backoffElapsed >= backoffDelay
  /\ backoffPc' = "upload"
  /\ UNCHANGED <<backoffAttempts, backoffDelay, backoffElapsed, recordPageVars,
                 shuffleVars, recorderVars, clockVars, exitVars, advanceVars,
                 startVars, acquireVars, logVars, manualVars, uploadVars,
                 retryCall>>

\* an entry with a counter of 1..MaxBackoffAttempts is about to be retried
BackoffInit ==
  /\ RetryCallIdle
  /\ UploadIdle
  /\ ManualInit
  /\ LogIdle
  /\ AcquireIdle
  /\ StartIdle
  /\ PageInit /\ ShuffleIdle /\ Mount("none") /\ ClockInit /\ ExitInit
  /\ AdvanceIdle
  /\ backoffAttempts \in 1..MaxBackoffAttempts
  /\ backoffDelay = 0
  /\ backoffElapsed = 0
  /\ backoffPc = "start"

BackoffNext == SetBackoffTimer \/ BackoffSecondPasses \/ BackoffElapses

BackoffSpec == BackoffInit /\ [][BackoffNext]_vars

\* ------------------------------- the start of a recording on its own

\* the types named by either VideoRecorder, and one that neither names
MimeTypes ==
  {"video/webm;codecs=vp8,opus", "video/webm", "video/mp4", "video/x-matroska"}

\* const mimeTypes = [...] of startRecordingActual
ManualPreference == <<"video/webm;codecs=vp8,opus", "video/webm", "video/mp4">>

\* the type startRecording tries first and the one it falls back to
AutoPreference == <<"video/webm;codecs=vp8,opus", "video/webm">>

\* mimeTypes.find(type => MediaRecorder.isTypeSupported(type)) || ''
RECURSIVE FindLast(_, _)
RECURSIVE Find(_, _)
FindLast(list, platform) ==
  IF list = <<>> THEN ""
  ELSE IF list[Len(list)] \in platform THEN list[Len(list)]
  ELSE FindLast(SubSeq(list, 1, Len(list) - 1), platform)
Find(list, platform) ==
  IF list = <<>> THEN ""
  ELSE IF Head(list) \in platform THEN Head(list)
  ELSE Find(Tail(list), platform)

\* startRecordingActual of the manual VideoRecorder
StartManual(platform, stream) ==
  IF stream = "null" THEN [NotStarted EXCEPT !.called = TRUE]
  ELSE LET mimeType == Find(ManualPreference, platform)
       IN IF mimeType = ""
          THEN [called |-> TRUE, isRecording |-> FALSE,
                error |-> "not supported", mimeType |-> ""]
          ELSE [called |-> TRUE, isRecording |-> TRUE, error |-> "",
                mimeType |-> mimeType]

\* startRecording of the auto-start VideoRecorder: new MediaRecorder throws
\* on a type the platform does not support, and the catch reports it
StartAuto(platform, stream) ==
  IF stream = "null"
  THEN [called |-> TRUE, isRecording |-> FALSE, error |-> "not ready",
        mimeType |-> ""]
  ELSE LET mimeType == IF AutoPreference[1] \in platform
                       THEN AutoPreference[1] ELSE AutoPreference[2]
       IN IF mimeType \notin platform
          THEN [called |-> TRUE, isRecording |-> FALSE,
                error |-> "failed to start", mimeType |-> ""]
          ELSE [called |-> TRUE, isRecording |-> TRUE, error |-> "",
                mimeType |-> mimeType]

\* the component starts its recording
StartRecording ==
  /\ startVariant \in {"auto", "manual"} /\ ~startOutcome.called
  /\ startOutcome' = IF startVariant = "auto"
                     THEN StartAuto(platformTypes, startStream)
                     ELSE StartManual(platformTypes, startStream)
  /\ UNCHANGED <<startVariant, platformTypes, startStream, recordPageVars,
                 shuffleVars, recorderVars, clockVars, exitVars, advanceVars,
                 backoffVars, acquireVars, logVars, manualVars, uploadVars,
                 retryCall>>

\* either VideoRecorder, on a platform supporting any set of types, with or
\* without a stream
StartInit ==
  /\ RetryCallIdle
  /\ UploadIdle
  /\ ManualInit
  /\ LogIdle
  /\ AcquireIdle
  /\ PageInit /\ ShuffleIdle /\ Mount("none") /\ ClockInit /\ ExitInit
  /\ AdvanceIdle /\ BackoffIdle
  /\ startVariant \in {"auto", "manual"}
  /\ platformTypes \in SUBSET MimeTypes
  /\ startStream \in {"null", "set"}
  /\ startOutcome = NotStarted

StartSpec == StartInit /\ [][StartRecording]_vars

\* ------------------------------- a failed acquisition on its own

\* names getUserMedia rejects with: those the catch blocks test for and
\* others
ErrorNames ==
  {"NotAllowedError", "PermissionDeniedError", "NotFoundError",
   "NotReadableError", "TrackStartError", "OverconstrainedError",
   "AbortError", "SecurityError", "TypeError"}

ErrorMessages == {"", "Could not start video source"}

\* the catch of setupCamera in the auto-start VideoRecorder
CatchAuto(name) ==
  IF name = "NotAllowedError" THEN "access denied: refresh and allow"
  ELSE IF name = "NotFoundError" THEN "no camera or microphone found"
  ELSE "failed to access: check your device settings"

\* the catch of initializeStream in the manual VideoRecorder and of
\* setupCamera in the practice page
CatchManual(name, message) ==
  IF name = "NotAllowedError" \/ name = "PermissionDeniedError"
  THEN "access denied: click the lock icon"
  ELSE IF name = "NotFoundError" THEN "no camera or microphone found"
  ELSE IF name = "NotReadableError" \/ name = "TrackStartError"
  THEN "in use by another app or blocked by system settings"
  ELSE IF message # "" THEN "System Error: " \o message
  ELSE "System Error: Failed to access camera/microphone"

\* the error the component shows for a rejection
Catch(kind, name, message) ==
  IF kind = "auto" THEN CatchAuto(name) ELSE CatchManual(name, message)

\* getUserMedia rejects and the catch block sets the error
CatchAcquireError ==
  /\ acquirePc = "pending"
  /\ acquireError' = Catch(acquireOwner, acquireName, acquireMessage)
  /\ acquirePc' = "rejected"
  /\ UNCHANGED <<acquireOwner, acquireName, acquireMessage, recordPageVars,
                 shuffleVars, recorderVars, clockVars, exitVars, advanceVars,
                 backoffVars, startVars, logVars, manualVars, uploadVars,
                 retryCall>>

\* a component has asked for the camera and the request is about to fail
AcquireInit ==
  /\ RetryCallIdle
  /\ UploadIdle
  /\ ManualInit
  /\ LogIdle
  /\ PageInit /\ ShuffleIdle /\ Mount("none") /\ ClockInit /\ ExitInit
  /\ AdvanceIdle /\ BackoffIdle /\ StartIdle
  /\ acquireOwner \in {"auto", "manual", "practice"}
  /\ acquireName \in ErrorNames
  /\ acquireMessage \in ErrorMessages
  /\ acquireError = ""
  /\ acquirePc = "pending"

AcquireSpec == AcquireInit /\ [][CatchAcquireError]_vars

\* ------------------------------------ the camera components on their own
\* One instance of a component that opens the camera: the auto-start
\* VideoRecorder, the manual VideoRecorder (both in src/unnamed/part_000) or
\* the preview page.  State setters are committed at once; a setter called
\* after the teardown changes nothing.  MediaRecorder delivers its events as
\* tasks: stop() makes the recorder inactive at once and queues one task that
\* fires the last dataavailable and then stop.  That task runs before a timer
\* that is a second away (CameraCountdownTick).

Owners == {"auto", "manual", "preview"}

otherVars ==
  <<recordPageVars, shuffleVars, clockVars, exitVars, advanceVars, backoffVars,
                 startVars, acquireVars, logVars, manualVars, uploadVars,
                 retryCall>>

Commit(v) == IF ownerMounted THEN v ELSE videoRecorder

Fragment(recording, n, size) == [recording |-> recording, n |-> n, size |-> size]

\* ondataavailable: push the data when its size is > 0
ondataavailable(chunks, data) ==
  IF data.size > 0 THEN Append(chunks, data) ELSE chunks

\* chunksRef.current = []
ResetChunksKeeps(chunks) == chunks
ResetChunks(chunks) == <<>>

\* new MediaRecorder(stream, { mimeType }) followed by start(timeslice)
NewMediaRecorder == [state |-> "recording", stopTask |-> FALSE, delivered |-> <<>>]

\* MediaRecorder.stop(): nothing on an inactive recorder
Stop(recs, r) ==
  IF recs[r].state = "recording"
  THEN [recs EXCEPT ![r].state = "inactive", ![r].stopTask = TRUE]
  ELSE recs

\* the cleanup of the mount effect reads the stream of the first render
MountClosureStream == FirstRender.stream

\* if (stream) stream.getTracks().forEach(track => track.stop())
StopTracks(stream, t) == IF stream # "null" /\ t = "live" THEN "stopped" ELSE t

\* startRecording of the auto-start VideoRecorder, past its stream check
startRecording(v) ==
  /\ chunksRef' = ResetChunks(chunksRef)
  /\ mediaRecorders' = Append(mediaRecorders, NewMediaRecorder)
  /\ mediaRecorderRef' = Len(mediaRecorders) + 1
  /\ videoRecorder' = Commit([v EXCEPT !.isRecording = TRUE, !.recordingTime = 0,
                                       !.error = ""])
  /\ timerRef' = TRUE
  /\ finishTimer' = 0

\* the auto-start effect, deps [autoStartRecording, stream]
AutoStartEffect(v, prop) ==
  IF ownerMounted /\ prop /\ v.stream # "null" /\ ~v.isRecording
     /\ v.recordedBlob = <<>>
  THEN startRecording(v)
  ELSE /\ videoRecorder' = Commit(v)
       /\ UNCHANGED <<chunksRef, mediaRecorders, mediaRecorderRef, timerRef,
                      finishTimer>>

\* if (recordingTime < MIN_RECORDING_TIME)
TooShortNever(time) == FALSE
TooShort(time) == time < MIN_RECORDING_TIME

\* stopRecording of the auto-start VideoRecorder; the effect on isRecording
\* clears the Finish button and its timeout
stopRecording(v) ==
  IF mediaRecorderRef # 0 /\ v.isRecording
  THEN IF TooShort(v.recordingTime)
       THEN /\ videoRecorder' = Commit([v EXCEPT !.error = "too short"])
            /\ UNCHANGED <<mediaRecorders, timerRef, finishTimer, acceptedStops>>
       ELSE /\ mediaRecorders' = Stop(mediaRecorders, mediaRecorderRef)
            /\ acceptedStops' =
                 IF mediaRecorders[mediaRecorderRef].state = "recording"
                 THEN acceptedStops + 1 ELSE acceptedStops
            /\ videoRecorder' = Commit([v EXCEPT !.isRecording = FALSE,
                                                 !.showFinishButton = FALSE])
            /\ timerRef' = FALSE
            /\ finishTimer' = Null
  ELSE /\ videoRecorder' = Commit(v)
       /\ UNCHANGED <<mediaRecorders, timerRef, finishTimer, acceptedStops>>

\* startRecordingActual of the manual VideoRecorder
startRecordingActual(v, supported) ==
  IF v.stream = "null"
  THEN /\ videoRecorder' = Commit(v)
       /\ UNCHANGED <<chunksRef, mediaRecorders, mediaRecorderRef, timerRef>>
  ELSE /\ chunksRef' = ResetChunks(chunksRef)
       /\ IF ~supported
          THEN /\ videoRecorder' = Commit([v EXCEPT !.error = "not supported"])
               /\ UNCHANGED <<mediaRecorders, mediaRecorderRef, timerRef>>
          ELSE /\ mediaRecorders' = Append(mediaRecorders, NewMediaRecorder)
               /\ mediaRecorderRef' = Len(mediaRecorders) + 1
               /\ videoRecorder' = Commit([v EXCEPT !.isRecording = TRUE])
               /\ timerRef' = TRUE

\* stopRecording of the manual VideoRecorder
stopRecordingManual(v) ==
  IF mediaRecorderRef # 0 /\ mediaRecorders[mediaRecorderRef].state # "inactive"
  THEN /\ mediaRecorders' = Stop(mediaRecorders, mediaRecorderRef)
       /\ acceptedStops' = acceptedStops + 1
       /\ videoRecorder' = Commit([v EXCEPT !.isRecording = FALSE])
       /\ timerRef' = FALSE
  ELSE /\ videoRecorder' = Commit(v)
       /\ UNCHANGED <<mediaRecorders, timerRef, acceptedStops>>

\* getUserMedia resolves, before or after the teardown of the component
GetUserMediaResolves ==
  /\ owner \in Owners /\ getUserMediaPc = "pending"
  /\ getUserMediaPc' = "resolved"
  /\ tracks' = "live"
  /\ LET v == [videoRecorder EXCEPT
                 !.stream = "set",
                 !.permissionGranted = (owner # "manual") \/ @,
                 !.error = IF owner = "auto" THEN @ ELSE ""]
     IN IF owner = "auto"
        THEN AutoStartEffect(v, autoStartRecording)
        ELSE /\ videoRecorder' = Commit(v)
             /\ UNCHANGED <<chunksRef, mediaRecorders, mediaRecorderRef, timerRef,
                            finishTimer>>
  /\ UNCHANGED <<owner, ownerMounted, autoStartRecording, startCount, completions,
                 acceptedStops, otherVars>>

\* getUserMedia rejects
GetUserMediaRejects ==
  /\ owner \in Owners /\ getUserMediaPc = "pending"
  /\ getUserMediaPc' = "rejected"
  /\ videoRecorder' = Commit([videoRecorder EXCEPT !.error = "camera"])
  /\ UNCHANGED <<owner, ownerMounted, autoStartRecording, tracks, mediaRecorders,
                 mediaRecorderRef, chunksRef, timerRef, finishTimer, startCount,
                 completions, acceptedStops, otherVars>>

\* the record page's canRecord becomes true: the prop autoStartRecording
ParentAllowsRecording ==
  /\ owner = "auto" /\ ownerMounted /\ ~autoStartRecording
  /\ autoStartRecording' = TRUE
  /\ AutoStartEffect(videoRecorder, TRUE)
  /\ UNCHANGED <<owner, ownerMounted, getUserMediaPc, tracks, startCount, completions,
                 acceptedStops, otherVars>>

\* a recorder delivers the data of one timeslice
DataAvailable(r, size) ==
  /\ r \in 1..Len(mediaRecorders)
  /\ mediaRecorders[r].state = "recording"
  /\ Len(mediaRecorders[r].delivered) < MaxFragments
  /\ LET data == Fragment(r, Len(mediaRecorders[r].delivered) + 1, size)
     IN /\ mediaRecorders' = [mediaRecorders EXCEPT ![r].delivered = Append(@, data)]
        /\ chunksRef' = ondataavailable(chunksRef, data)
  /\ UNCHANGED <<owner, ownerMounted, autoStartRecording, getUserMediaPc, tracks,
                 videoRecorder, mediaRecorderRef, timerRef, finishTimer, startCount,
                 completions, acceptedStops, otherVars>>

\* the task stop() queued: the last dataavailable, then onstop
StopTaskRuns(r, size) ==
  /\ r \in 1..Len(mediaRecorders)
  /\ mediaRecorders[r].stopTask
  /\ LET data == Fragment(r, Len(mediaRecorders[r].delivered) + 1, size)
         chunks == ondataavailable(chunksRef, data)
     IN /\ mediaRecorders' = [mediaRecorders EXCEPT ![r].delivered = Append(@, data),
                                                    ![r].stopTask = FALSE]
        /\ chunksRef' = chunks
        /\ videoRecorder' = Commit([videoRecorder EXCEPT !.recordedBlob = <<chunks>>])
        /\ completions' = Append(completions, [recording |-> r, blob |-> chunks])
  /\ UNCHANGED <<owner, ownerMounted, autoStartRecording, getUserMediaPc, tracks,
                 mediaRecorderRef, timerRef, finishTimer, startCount, acceptedStops,
                 otherVars>>

\* recordingTime >= maxDuration, of the auto-stop effect and of the updater of
\* the manual interval (prev >= maxDuration)
AfterMaxDuration(time) == time > maxDuration
AtMaxDuration(time) == time >= maxDuration

\* one tick of the recording interval
RecordingTimerTick ==
  /\ timerRef
  /\ \/ /\ owner = "auto"
        \* the interval runs at most once a second
        /\ (finishTimer # Null /\ finishTimer < FINISH_BUTTON_DELAY)
             => videoRecorder.recordingTime < finishTimer
        \* setRecordingTime(prev => prev + 1), then the auto-stop effect
        /\ LET v == [videoRecorder EXCEPT !.recordingTime = @ + 1]
           IN IF AtMaxDuration(v.recordingTime) /\ v.isRecording
              THEN stopRecording(v)
              ELSE /\ videoRecorder' = Commit(v)
                   /\ UNCHANGED <<mediaRecorders, timerRef, finishTimer,
                                  acceptedStops>>
     \/ /\ owner = "manual" /\ ownerMounted
        \* the updater stops the recorder at the cap instead of counting
        /\ IF AtMaxDuration(videoRecorder.recordingTime)
           THEN stopRecordingManual(videoRecorder)
           ELSE /\ videoRecorder' = [videoRecorder EXCEPT !.recordingTime = @ + 1]
                /\ UNCHANGED <<mediaRecorders, timerRef, acceptedStops>>
        /\ UNCHANGED finishTimer
  /\ UNCHANGED <<owner, ownerMounted, autoStartRecording, getUserMediaPc, tracks,
                 mediaRecorderRef, chunksRef, startCount, completions, otherVars>>

\* setTimeout(..., FINISH_BUTTON_DELAY * 1000): the timeout is due once that
\* many seconds have passed since it was set
FinishButtonDueAtOnce(elapsed) == elapsed # Null
FinishButtonDue(elapsed) == elapsed # Null /\ elapsed >= FINISH_BUTTON_DELAY

\* a second passes while the timeout of the Finish button is pending
SecondPasses ==
  /\ owner = "auto" /\ finishTimer # Null /\ finishTimer < FINISH_BUTTON_DELAY
  /\ finishTimer' = finishTimer + 1
  /\ UNCHANGED <<owner, ownerMounted, autoStartRecording, getUserMediaPc, tracks,
                 videoRecorder, mediaRecorders, mediaRecorderRef, chunksRef,
                 timerRef, startCount, completions, acceptedStops, otherVars>>

\* the timeout of the effect on isRecording: the Finish button appears
FinishTimerFires ==
  /\ owner = "auto" /\ FinishButtonDue(finishTimer)
  /\ finishTimer' = Null
  /\ videoRecorder' = Commit([videoRecorder EXCEPT !.showFinishButton = TRUE])
  /\ UNCHANGED <<owner, ownerMounted, autoStartRecording, getUserMediaPc, tracks,
                 mediaRecorders, mediaRecorderRef, chunksRef, timerRef, startCount,
                 completions, acceptedStops, otherVars>>

\* the Finish Answer button of the auto-start VideoRecorder
ClickFinish ==
  /\ owner = "auto" /\ ownerMounted
  /\ videoRecorder.isRecording /\ videoRecorder.showFinishButton
  /\ stopRecording(videoRecorder)
  /\ UNCHANGED <<owner, ownerMounted, autoStartRecording, getUserMediaPc, tracks,
                 mediaRecorderRef, chunksRef, startCount, completions, otherVars>>

\* the Stop button of the manual VideoRecorder
ClickStop ==
  /\ owner = "manual" /\ ownerMounted
  /\ videoRecorder.isRecording
  /\ stopRecordingManual(videoRecorder)
  /\ UNCHANGED <<owner, ownerMounted, autoStartRecording, getUserMediaPc, tracks,
                 mediaRecorderRef, chunksRef, finishTimer, startCount, completions,
                 otherVars>>

\* the Start Answer button, shown when !isRecording && !recordedBlob &&
\* !countdown and enabled once the stream is set
handleStartClick ==
  /\ owner = "manual" /\ ownerMounted
  /\ ~videoRecorder.isRecording /\ videoRecorder.recordedBlob = <<>>
  /\ videoRecorder.countdown = 0 /\ videoRecorder.stream # "null"
  /\ Len(mediaRecorders) < MaxRecordings
  /\ videoRecorder' = [videoRecorder EXCEPT !.countdown = 3]
  /\ startCount' = 3
  /\ UNCHANGED <<owner, ownerMounted, autoStartRecording, getUserMediaPc, tracks,
                 mediaRecorders, mediaRecorderRef, chunksRef, timerRef,
                 finishTimer, completions, acceptedStops, otherVars>>

\* one tick of the interval of handleStartClick; the interval outlives the
\* component
CameraCountdownTick(supported) ==
  /\ owner = "manual" /\ startCount > 0
  /\ \A r \in 1..Len(mediaRecorders) : ~mediaRecorders[r].stopTask
  /\ startCount' = startCount - 1
  /\ IF startCount - 1 > 0
     THEN /\ videoRecorder' = Commit([videoRecorder EXCEPT !.countdown = startCount - 1])
          /\ UNCHANGED <<chunksRef, mediaRecorders, mediaRecorderRef, timerRef>>
     ELSE startRecordingActual([videoRecorder EXCEPT !.countdown = 0], supported)
  /\ UNCHANGED <<owner, ownerMounted, autoStartRecording, getUserMediaPc, tracks,
                 finishTimer, completions, acceptedStops, otherVars>>

\* the component is torn down: the cleanup of its mount effect runs
Unmount ==
  /\ owner \in Owners /\ ownerMounted
  /\ ownerMounted' = FALSE
  /\ tracks' = StopTracks(MountClosureStream, tracks)
  /\ timerRef' = IF owner = "auto" THEN FALSE ELSE timerRef
  /\ finishTimer' = Null
  /\ UNCHANGED <<owner, autoStartRecording, getUserMediaPc, videoRecorder,
                 mediaRecorders, mediaRecorderRef, chunksRef, startCount, completions,
                 acceptedStops, otherVars>>

\* handleContinue of the preview page: stop the stream, then router.push
handleContinue ==
  /\ owner = "preview" /\ ownerMounted
  /\ IF ~videoRecorder.permissionGranted
     THEN /\ videoRecorder' = [videoRecorder EXCEPT !.error = "allow access"]
          /\ UNCHANGED <<ownerMounted, tracks>>
     ELSE /\ tracks' = StopTracks(MountClosureStream,
                                  StopTracks(videoRecorder.stream, tracks))
          /\ ownerMounted' = FALSE
          /\ UNCHANGED videoRecorder
  /\ UNCHANGED <<owner, autoStartRecording, getUserMediaPc, mediaRecorders,
                 mediaRecorderRef, chunksRef, timerRef, finishTimer, startCount,
                 completions, acceptedStops, otherVars>>

RecorderInit ==
  /\ RetryCallIdle
  /\ UploadIdle
  /\ ManualInit
  /\ LogIdle
  /\ AcquireIdle
  /\ StartIdle
  /\ PageInit /\ ShuffleIdle /\ ClockInit /\ ExitInit /\ AdvanceIdle
  /\ BackoffIdle
  /\ \E kind \in Owners : Mount(kind)

RecorderNext ==
  \/ GetUserMediaResolves
  \/ GetUserMediaRejects
  \/ ParentAllowsRecording
  \/ \E r \in 1..Len(mediaRecorders), size \in 0..1 : DataAvailable(r, size)
  \/ \E r \in 1..Len(mediaRecorders), size \in 0..1 : StopTaskRuns(r, size)
  \/ RecordingTimerTick
  \/ SecondPasses
  \/ FinishTimerFires
  \/ ClickFinish
  \/ ClickStop
  \/ handleStartClick
  \/ \E supported \in BOOLEAN : CameraCountdownTick(supported)
  \/ Unmount
  \/ handleContinue

RecorderSpec == RecorderInit /\ [][RecorderNext]_vars

\* ---------------------------------------------------------------- claims

Range(s) == {s[j] : j \in 1..Len(s)}
Blobs == 0..(totalQuestions - 1)
Queued(blob) == \E e \in Range(failedUploads) : e.blob = blob
FirstKind(blob) == IF blob = totalQuestions - 1 THEN "last" ELSE "background"

\* C1: in every reachable state uploadedCount <= totalQuestions, the length of
\* the candidate's question order.
C1_UploadedCountBounded == uploadedCount <= totalQuestions

\* C2: when every question's first upload attempt has succeeded and the page has
\* navigated to the complete page, uploadedCount = totalQuestions and the retry
\* queue is empty.
C2_AllSucceedCompletes ==
  (/\ route = "complete"
   /\ \A b \in Blobs : successes[<<b, FirstKind(b)>>] = 1
   /\ enqueued = {})
  => (uploadedCount = totalQuestions /\ failedUploads = <<>>)

\* C3: an entry whose failure log has been emitted is no longer in failedUploads
\* once the pass that emitted the log has written back (no pass is in flight).
C3_AbandonedRemoved ==
  passes = <<>> =>
    \A e \in Range(failedUploads) : failureLog[e.questionIndex] = 0

\* C4: whenever a retry pass is waiting out a backoff or awaiting an upload, the
\* entry it is retrying has attempts < 3.
C4_NoRetryOfAbandoned ==
  \A k \in 1..Len(passes) :
    passes[k].uploadsToRetry[passes[k].i].attempts < MaxAttempts

\* C4 witness: a pass is uploading while its snapshot holds an abandoned entry.
C4_Witness ==
  \E k \in 1..Len(passes) :
    /\ passes[k].pc = "upload"
    /\ \E e \in Range(passes[k].uploadsToRetry) : e.attempts >= MaxAttempts

\* C5: the page never rests (no commit scheduled, no pass in flight) with an entry
\* of attempts < 3 on the retry queue.
C5_RetryableNeverStranded ==
  (Mounted /\ ~renderPending /\ passes = <<>>) =>
    \A e \in Range(failedUploads) : e.attempts >= MaxAttempts

\* C6: at most one execution of retryFailedUploads is between
\* setRetryingUploads(true) and setRetryingUploads(false).
C6_OnePassInFlight == Len(passes) <= 1

\* C6 witness: the retry effect re-ran on a changed queue length while a pass was
\* in flight, and started nothing.
C6_Witness ==
  /\ Len(passes) = 1
  /\ Len(failedUploads) # Len(passes[1].uploadsToRetry)
  /\ deps.length = Len(failedUploads)
  /\ ~renderPending

\* C7: every blob the immediate failure handlers enqueued is still on the queue,
\* or has been uploaded successfully, or has had its failure logged.
C7_NoLostUpdate ==
  \A b \in enqueued :
    \/ Queued(b)
    \/ \E kind \in UploadKinds : successes[<<b, kind>>] > 0
    \/ failureLog[question_order[b + 1]] > 0

\* C8: when the last question's upload has failed, the page does not navigate to
\* the complete page while that question's entry is on the retry queue and less
\* than the 10 s wait has elapsed (route is "complete" only in the state that
\* router.push leaves).
C8_NoEarlyCompletion ==
  (route = "complete" /\ \A u \in inFlight : u.from # "last")
  => ~(Queued(totalQuestions - 1) /\ waited < MaxWait)

\* C9: once the last question's blob is finalized the page eventually navigates
\* to the complete page, whatever the uploads do.
LastFinalized ==
  /\ interview /\ candidate
  /\ isLastQuestion(currentQuestionIndex, question_order)
  /\ recordedBlob # Null
C9_EventuallyCompletes == LastFinalized ~> (route = "complete")

\* C9 witness: the page has navigated while the last upload never settled.
C9_Witness ==
  /\ route = "complete"
  /\ \E u \in inFlight : u.from = "last"

\* C10: no recording is uploaded successfully both by its original upload and by
\* a retry.
C10_NoDoubleUpload ==
  \A b \in Blobs :
    successes[<<b, "retry">>] > 0 => successes[<<b, FirstKind(b)>>] = 0

\* C11: every upload in flight, every retry-queue entry and every entry a retry
\* pass holds pairs the recording of display position i with questionIndex =
\* question_order[i], and no two different recordings carry the same index.
Addressed ==
  {[blob |-> u.blob, questionIndex |-> u.questionIndex] : u \in inFlight}
  \cup {[blob |-> e.blob, questionIndex |-> e.questionIndex] :
          e \in Range(failedUploads)}
  \cup UNION {{[blob |-> e.blob, questionIndex |-> e.questionIndex] :
                 e \in Range(passes[k].uploadsToRetry)
                        \cup Range(passes[k].stillFailed)} :
              k \in 1..Len(passes)}
C11_FiledUnderOriginalIndex ==
  /\ \A a \in Addressed : a.questionIndex = question_order[a.blob + 1]
  /\ \A a, b \in Addressed : a.questionIndex = b.questionIndex => a.blob = b.blob

\* C11 witness: under a shuffled order a retry pass is uploading a recording whose
\* original index differs from its display position.
C11_Witness ==
  \E k \in 1..Len(passes) :
    /\ passes[k].pc = "upload"
    /\ passes[k].uploadsToRetry[passes[k].i].questionIndex
         # passes[k].uploadsToRetry[passes[k].i].blob

\* C12: what generateQuestionOrder(N) returns has length N and holds each
\* integer of [0, N) exactly once, whatever indices the random source gave.
C12_ReturnsPermutation ==
  shufflePc = "returned" =>
    /\ Len(shuffled) = questionCount
    /\ \A v \in 0..(questionCount - 1) :
         Cardinality({k \in 1..Len(shuffled) : shuffled[k] = v}) = 1

\* C12 witness: a call with at least three questions returned an order that
\* moved every index.
C12_Witness ==
  /\ shufflePc = "returned"
  /\ questionCount >= 3
  /\ \A k \in 1..Len(shuffled) : shuffled[k] # k - 1

\* the non-empty fragments recorder r has delivered, in arrival order
NonEmpty(data) == data.size > 0
OwnFragments(r) == SelectSeq(mediaRecorders[r].delivered, NonEmpty)

\* C13: while a recording runs or awaits its stop task the buffer holds exactly
\* the non-empty fragments that recording delivered, and every finalized blob
\* is exactly the non-empty fragments of its own recording, in arrival order.
C13_BlobIsOwnFragments ==
  /\ (/\ mediaRecorderRef # 0
      /\ \/ mediaRecorders[mediaRecorderRef].state = "recording"
         \/ mediaRecorders[mediaRecorderRef].stopTask)
     => chunksRef = OwnFragments(mediaRecorderRef)
  /\ \A k \in 1..Len(completions) :
       completions[k].blob = OwnFragments(completions[k].recording)

\* C13 witness: one instance finalized a second recording after a first one
\* that had accumulated fragments.
C13_Witness ==
  /\ Len(completions) = 2
  /\ completions[1].blob # <<>>
  /\ completions[2].blob # <<>>
  /\ completions[1].recording # completions[2].recording

\* C14: one component instance hands at most one blob to onRecordingComplete.
C14_CompletesAtMostOnce == Len(completions) <= 1

\* the budget of the loaded interview has been used up
DeadlineReached ==
  /\ interview /\ candidate
  /\ ticksSinceLoad >= SecondsPerQuestion * totalQuestions

\* C15: once as many ticks as the budget (seconds per question times
\* totalQuestions) have passed since the data loaded, the page has made its
\* terminal transition and records no more.
C15_DeadlineEndsInterview == DeadlineReached => route # "record"

\* C16: the deadline never passes with a non-final question still being
\* recorded: the page is forced onto the last-question path.
C16_DeadlineForcesFinalize ==
  ~(/\ DeadlineReached
    /\ recorder.state = "recording"
    /\ ~isLastQuestion(currentQuestionIndex, question_order)
    /\ lastPc = "idle")

\* C17: once fetchData has ended without both the interview and the candidate,
\* the committed page is the error page.
C17_FetchFailureShowsError ==
  (fetchPc = "done" /\ ~(interview /\ candidate) /\ ~renderPending)
  => View = "error"

\* C18: once a component that opened the camera is torn down, no track of the
\* stream it acquired, before or after the teardown, is live.
C18_TornDownStreamStopped ==
  (owner \in Owners /\ ~ownerMounted) => tracks # "live"

\* C19: the page goes to the landing page only in a step in which the user
\* confirmed the exit, and the step in which the user declines leaves the
\* route, currentQuestionIndex, the recorder and recordedBlob, uploadedCount
\* and the retry queue as they were.
C19_ExitOnlyOnConfirm ==
  [][/\ (route' = "landing" /\ route # "landing") => confirmAnswer' = "confirmed"
     /\ (confirmAnswer' = "declined" /\ confirmAnswer # "declined") =>
          UNCHANGED <<route, currentQuestionIndex, recorder, recordedBlob,
                      isCountingDown, canRecord, uploadedCount, failedUploads,
                      passes>>]_vars

\* C19 witness: the exit was declined while an answer was being recorded and
\* an earlier upload sat on the retry queue.
C19_Witness ==
  /\ confirmAnswer = "declined"
  /\ route = "record"
  /\ recorder.state = "recording"
  /\ failedUploads # <<>>

\* C20: once the blob of a non-final question is finalized the page moves on
\* to the next question, whether or not the upload of that blob settles.
NonFinalFinalized(i) ==
  /\ interview /\ candidate /\ route = "record"
  /\ currentQuestionIndex = i
  /\ recordedBlob = i
  /\ ~isLastQuestion(i, question_order)
C20_AdvancesWithoutUpload ==
  \A i \in 0..(MaxQuestions - 2) :
    NonFinalFinalized(i) ~> (currentQuestionIndex = i + 1)

\* C20 witness: the page is on the next question while the upload of the
\* previous answer has not settled.
C20_Witness ==
  \E u \in inFlight :
    /\ u.from = "background"
    /\ currentQuestionIndex = u.blob + 1
    /\ recorder.key = currentQuestionIndex

\* C21: the only recorder that is preparing or recording is the one of the
\* current question, and the page moves to the next question only in a step
\* that finds the current question's blob finalized and its recorder done.
C21_OneQuestionActive ==
  /\ [](recorder.state \in {"nostream", "idle", "recording"}
        => recorder.key = currentQuestionIndex)
  /\ [][currentQuestionIndex' # currentQuestionIndex
        => (recordedBlob = currentQuestionIndex /\ recorder.state = "complete")]_vars

\* C21 witness: the second question is being recorded while a retry pass is
\* uploading the first question's answer.
C21_Witness ==
  /\ recorder.state = "recording" /\ recorder.key = 1
  /\ \E k \in 1..Len(passes) :
       /\ passes[k].pc = "upload"
       /\ passes[k].uploadsToRetry[passes[k].i].blob = 0

\* C22: currentQuestionIndex stays within 0..totalQuestions - 1 once the
\* candidate is loaded, and every change of it is a step of +1 taken on the
\* finalized blob of the current, non-final question.
C22_IndexStepsByOne ==
  /\ [](candidate =>
         (0 <= currentQuestionIndex /\ currentQuestionIndex <= totalQuestions - 1))
  /\ [][currentQuestionIndex' # currentQuestionIndex =>
          /\ currentQuestionIndex' = currentQuestionIndex + 1
          /\ recordedBlob = currentQuestionIndex
          /\ ~isLastQuestion(currentQuestionIndex, question_order)]_vars

\* C22 witness: the page stepped through every question of the longest
\* interview and completed on the last index.
C22_Witness ==
  /\ route = "complete"
  /\ totalQuestions = MaxQuestions
  /\ currentQuestionIndex = totalQuestions - 1

\* C23: the advance takes the last-question branch exactly when the index is
\* the last position of the questions presented to the candidate.
C23_LastPathIffLastIndex ==
  advancePath # "none" =>
    (advancePath = "last" <=>
       advanceIndex =
         Len(RenderQuestionOrder(candidateRecord, questionsLength)) - 1)

\* C24: in the step in which the retried upload of an entry settles, the entry
\* had attempts < 3; after a success no entry of its blob is in what the pass
\* writes back, and after a failure exactly one is, with the same blob and
\* questionIndex and attempts increased by 1.
C24_RetryOutcomeWrittenBack ==
  [][(passes # <<>> /\ passes[1].pc = "upload" /\ passes' # passes) =>
       LET failed == passes[1].uploadsToRetry[passes[1].i]
           written == IF Len(passes') < Len(passes) THEN failedUploads'
                      ELSE passes'[1].stillFailed
           same == {j \in 1..Len(written) : written[j].blob = failed.blob}
           ok == successes'[<<failed.blob, "retry">>]
                   > successes[<<failed.blob, "retry">>]
       IN /\ failed.attempts < MaxAttempts
          /\ ok => same = {}
          /\ ~ok => /\ Cardinality(same) = 1
                    /\ \A j \in same :
                         written[j] = FailedUpload(failed.blob, failed.questionIndex,
                                                   failed.attempts + 1)]_vars

\* C24 witness: a pass has written back a queue that holds an entry it failed
\* to retry twice, after a retry of another answer had succeeded.
C24_Witness ==
  /\ passes = <<>>
  /\ \E e \in Range(failedUploads) :
       /\ e.attempts = MaxAttempts
       /\ \E b \in Blobs : b # e.blob /\ successes[<<b, "retry">>] > 0

\* the waits the retry pass is described to make, by attempts counter
ClaimedDelay(k) ==
  CASE k = 1 -> 1000 [] k = 2 -> 2000 [] k = 3 -> 4000 [] OTHER -> 5000

\* C25: the wait before retrying an entry whose attempts counter is k is
\* min(1000 * 2^(k-1), 5000) ms: 1000 for k = 1, 2000 for k = 2, 4000 for
\* k = 3 and 5000 for k >= 4; the upload is called when exactly that time has
\* passed.
C25_BackoffDelay ==
  /\ backoffPc \in {"waiting", "upload"} => backoffDelay = ClaimedDelay(backoffAttempts)
  /\ backoffPc = "upload" => backoffElapsed = ClaimedDelay(backoffAttempts)

C25_Witness == backoffPc = "upload" /\ backoffAttempts >= 4 /\ backoffElapsed = 5000

\* the MediaRecorder of the component is recording
InProgress ==
  mediaRecorderRef # 0 /\ mediaRecorders[mediaRecorderRef].state = "recording"

\* the blob of recorder r has reached the parent, or the task that hands it
\* over is queued
Delivered(r) ==
  mediaRecorders[r].stopTask \/ \E c \in Range(completions) : c.recording = r

\* C26: recordingTime never exceeds maxDuration; when it reaches maxDuration
\* the recording is stopped without a click and its blob goes to the parent
\* through onRecordingComplete.  The auto-start recorder is stopped in the
\* tick that reaches maxDuration, the manual recorder by the next tick of
\* its interval: nothing else changes its state at maxDuration.
C26_StopsAtMaxDuration ==
  /\ [](videoRecorder.recordingTime <= maxDuration)
  /\ []((owner = "auto" /\ videoRecorder.recordingTime = maxDuration)
         => (~videoRecorder.isRecording /\ ~InProgress))
  /\ []((owner = "manual" /\ videoRecorder.recordingTime = maxDuration
          /\ videoRecorder.isRecording) => timerRef)
  /\ [][(owner = "manual" /\ videoRecorder.recordingTime = maxDuration
          /\ videoRecorder.isRecording /\ videoRecorder' # videoRecorder)
         => (~videoRecorder'.isRecording /\ ~InProgress')]_vars
  /\ [](\A r \in 1..Len(mediaRecorders) :
          mediaRecorders[r].state = "inactive" => Delivered(r))

C26_Witness ==
  /\ owner = "auto" /\ videoRecorder.recordingTime = maxDuration
  /\ completions # <<>>

\* C28: in the recorder with a minimum duration, a click on Finish Answer
\* while recordingTime < MIN_RECORDING_TIME is rejected: the error is shown,
\* the component still records with its interval running, the MediaRecorder
\* is not stopped and no blob is produced.
C28_ShortStopRejected ==
  [][(ClickFinish /\ videoRecorder.recordingTime < MIN_RECORDING_TIME) =>
       /\ videoRecorder'.error = "too short"
       /\ videoRecorder'.isRecording /\ timerRef'
       /\ videoRecorder'.recordingTime = videoRecorder.recordingTime
       /\ mediaRecorders' = mediaRecorders /\ InProgress'
       /\ videoRecorder'.recordedBlob = <<>> /\ completions' = completions]_vars

C28_Witness ==
  /\ owner = "auto" /\ videoRecorder.error = "too short"
  /\ videoRecorder.isRecording /\ timerRef /\ InProgress
  /\ videoRecorder.recordingTime < MIN_RECORDING_TIME
  /\ completions = <<>>

\* C29: the Finish Answer button is there only while recording and only once
\* FINISH_BUTTON_DELAY seconds of the current recording have passed: its
\* timeout starts from zero when the recording starts, belongs to the
\* recording in progress, and reveals the button only when the delay is over;
\* the button is gone once the recording stops, and a stop before maxDuration
\* is always a click on the revealed button.
C29_FinishAfterDelay ==
  /\ [](videoRecorder.showFinishButton => videoRecorder.isRecording)
  /\ [](finishTimer # Null =>
          (videoRecorder.isRecording /\ ~videoRecorder.showFinishButton))
  /\ [][(~videoRecorder.isRecording /\ videoRecorder'.isRecording /\ owner = "auto")
          => (finishTimer' = 0 /\ ~videoRecorder'.showFinishButton)]_vars
  /\ [][(~videoRecorder.showFinishButton /\ videoRecorder'.showFinishButton)
          => finishTimer = FINISH_BUTTON_DELAY]_vars
  /\ [][(owner = "auto" /\ videoRecorder.isRecording /\ ~videoRecorder'.isRecording
          /\ videoRecorder'.recordingTime < maxDuration)
          => (videoRecorder.showFinishButton /\ finishTimer = Null)]_vars

C29_Witness ==
  /\ owner = "auto" /\ acceptedStops = 1
  /\ ~videoRecorder.isRecording /\ ~videoRecorder.showFinishButton
  /\ videoRecorder.recordingTime < maxDuration

\* the countdown effect runs for a question that has just been entered
QuestionEntered ==
  \/ deps'.index # deps.index
  \/ (deps'.interview /\ deps'.candidate) /\ ~(deps.interview /\ deps.candidate)

\* C27: when a question is entered the timer is Preparing (isCountingDown,
\* not canRecord, seconds left); canRecord becomes true, with isCountingDown
\* false, exactly in the tick that takes the countdown to 0 or in the click
\* that skips it; countdownSeconds is never below 0; and a recorder records
\* only the current question and only once its countdown is over.
C27_CountdownGatesRecording ==
  /\ [][QuestionEntered =>
          (isCountingDown' /\ ~canRecord' /\ countdownSeconds' > 0
           /\ recorder'.state # "recording")]_vars
  /\ [][(~canRecord /\ canRecord') =>
          /\ ~isCountingDown'
          /\ \/ CountdownExpired(countdownSeconds) /\ countdownSeconds' = 0
             \/ handleManualStart]_vars
  /\ [][(countdownSeconds # 0 /\ countdownSeconds' = 0) =>
          (canRecord' /\ ~isCountingDown')]_vars
  /\ [](countdownSeconds >= 0)
  /\ [](canRecord <=> ~isCountingDown)
  /\ [](recorder.state = "recording" =>
          (~isCountingDown /\ canRecord /\ recorder.key = currentQuestionIndex))

C27_Witness ==
  /\ recorder.state = "recording" /\ recorder.key = 1
  /\ countdownSeconds = 0 /\ canRecord

\* a VideoRecorder mounts: its mount effect calls getUserMedia
AcquisitionRequested ==
  recorder'.state = "nostream" /\ recorder'.key # recorder.key

\* C30: the camera and microphone stream is acquired once for the lifetime
\* of the record page: getUserMedia is requested only when no VideoRecorder
\* has been mounted yet, never when the page moves on to the next question.
C30_AcquiredOnce ==
  [][AcquisitionRequested => recorder.state = "unmounted"]_vars

\* the preference list of the VideoRecorder that starts
Preference == IF startVariant = "auto" THEN AutoPreference ELSE ManualPreference

\* the positions of the preference list that the platform supports
SupportedEntries == {k \in 1..Len(Preference) : Preference[k] \in platformTypes}

\* C31: a start with a stream records with the first entry of the preference
\* list the platform supports; when it supports none, an error is reported,
\* isRecording stays false and no recorder exists.  The start is called once.
C31_FirstSupportedType ==
  (startOutcome.called /\ startStream = "set") =>
    IF SupportedEntries = {}
    THEN /\ startOutcome.error # "" /\ ~startOutcome.isRecording
         /\ startOutcome.mimeType = ""
    ELSE /\ startOutcome.isRecording /\ startOutcome.error = ""
         /\ \E k \in SupportedEntries :
              /\ startOutcome.mimeType = Preference[k]
              /\ \A j \in SupportedEntries : k <= j

C31_Witness ==
  /\ startOutcome.called /\ startStream = "set"
  /\ SupportedEntries = {} /\ platformTypes # {}
  /\ startOutcome.error # ""

\* the class a platform error name is described to fall into
ClaimedClass(name) ==
  CASE name \in {"NotAllowedError", "PermissionDeniedError"} -> "PermissionDenied"
    [] name = "NotFoundError" -> "DeviceNotFound"
    [] name \in {"NotReadableError", "TrackStartError"} -> "DeviceBusy"
    [] OTHER -> "Unknown"

\* C32: a failed acquisition is classified by error name into
\* PermissionDenied, DeviceNotFound, DeviceBusy or Unknown, and the classes
\* have pairwise distinct messages: the error shown is the one every name of
\* the same class gives, and no name of another class gives it.
C32_ClassifiedByName ==
  acquirePc = "rejected" =>
    \A name \in ErrorNames :
      (ClaimedClass(name) = ClaimedClass(acquireName))
        <=> (Catch(acquireOwner, name, acquireMessage) = acquireError)

\* C33: the failure log never blocks or fails the retry pass: a pass waits
\* only at the backoff or the upload of an entry it retries, never at a
\* logged one, and the step in which a log request settles, whatever its
\* outcome, leaves the retry queue, the passes, uploadedCount, the error and
\* the route as they were.
C33_LogNeverBlocks ==
  /\ [](\A k \in 1..Len(passes) :
          /\ passes[k].pc \in {"backoff", "upload"}
          /\ passes[k].i <= Len(passes[k].uploadsToRetry)
          /\ ~IsAbandoned(passes[k].uploadsToRetry[passes[k].i]))
  /\ [][logsSettled' # logsSettled =>
          UNCHANGED <<failedUploads, failedUploadsRef, passes, retryingUploads,
                      uploadedCount, error, route>>]_vars

C33_Witness ==
  /\ passes = <<>> /\ ~retryingUploads
  /\ 0 < logsSettled /\ logsSettled < LogsSent

\* uploads of the blobs 0..b that have completed successfully, first attempts
\* and retries
RECURSIVE SucceededUpTo(_)
SucceededUpTo(b) ==
  IF b < 0 THEN 0
  ELSE successes[<<b, "background">>] + successes[<<b, "last">>]
       + successes[<<b, "retry">>] + SucceededUpTo(b - 1)

\* C34: uploadedCount equals the number of uploads, first attempts and
\* retries, that have completed successfully.
C34_CountsSuccessfulUploads == uploadedCount = SucceededUpTo(MaxQuestions - 1)

\* C35: over the session the upload-failure log request is sent at most once
\* for each abandoned entry (an entry whose attempts reached MaxAttempts),
\* however many retry passes run.
C35_LoggedAtMostOnce ==
  \A q \in 0..(MaxQuestions - 1) : failureLog[q] <= 1

\* C36: retryingUploads is true only while a retry pass is running, the step
\* that ends a pass sets retryingUploads to false, and, every backoff timer
\* firing and every retried upload settling, a pass that has started ends with
\* retryingUploads false (as long as the page stays mounted).
C36_PassEnds ==
  /\ [](retryingUploads => passes # <<>>)
  /\ [][Len(passes') < Len(passes) => ~retryingUploads']_vars
  /\ (retryingUploads ~> (~Mounted \/ (passes = <<>> /\ ~retryingUploads)))

\* a pass has ended while the page is mounted: the queue was written back with
\* a raised attempt count and the flag is released
C36_Witness ==
  /\ Mounted /\ passes = <<>> /\ ~retryingUploads
  /\ \E j \in 1..Len(failedUploads) : failedUploads[j].attempts > 1

\* handleAutoAdvance has run for blob b: its upload is in flight, or has
\* succeeded, or has failed and was queued
AdvancedFor(b) ==
  \/ \E u \in inFlight : u.blob = b /\ u.from \in {"background", "last"}
  \/ successes[<<b, "background">>] > 0
  \/ successes[<<b, "last">>] > 0
  \/ b \in enqueued

\* handleAutoAdvance passes its early return in this step
AdvanceRuns == ~autoAdvancing /\ autoAdvancing'

\* C37: handleAutoAdvance runs only for a finalized blob it has not run for
\* before and not after the last question's run, and the navigation to the
\* completion page is issued at most once: it is the step in which the last
\* question's path ends, and that path never restarts.
C37_AdvanceOncePerBlob ==
  /\ [][AdvanceRuns => /\ recordedBlob # Null
                        /\ ~AdvancedFor(recordedBlob)
                        /\ lastPc = "idle"]_vars
  /\ [][route' # route => /\ route = "record" /\ route' = "complete"
                           /\ lastPc # "done" /\ lastPc' = "done"]_vars
  /\ [][lastPc = "done" => lastPc' = "done"]_vars

\* two blobs have been advanced and the navigation has been issued
C37_Witness ==
  /\ route = "complete"
  /\ AdvancedFor(0) /\ AdvancedFor(1)

\* the upload of the last question's answer fails in this step
ManualLastUploadFails ==
  \E u \in manualUploads :
    /\ u.last /\ u \notin manualUploads'
    /\ manualPage'.uploadedCount = manualPage.uploadedCount

\* C38: on the page with the Next button the navigation to the completion page
\* has happened only if the upload of the last question's answer succeeded;
\* when that upload fails the page stays on the last question, shows an error,
\* has uploading false and keeps recordedBlob, so that the Next button submits
\* the same blob again.
C38_CompleteOnlyAfterLastUpload ==
  /\ [](manualRoute = "complete" =>
         /\ manualCandidate # <<>>
         /\ manualCandidate[Len(manualCandidate)] \in manualSucceeded)
  /\ [][ManualLastUploadFails =>
         /\ manualRoute' = "record"
         /\ manualPage'.currentQuestionIndex = manualPage.currentQuestionIndex
         /\ isLastQuestion(manualPage'.currentQuestionIndex, manualCandidate)
         /\ manualPage'.error # ""
         /\ ~manualPage'.uploading
         /\ manualPage'.recordedBlob = manualPage.recordedBlob
         /\ NextEnabled(manualPage')]_vars

\* the last answer's upload failed, the same blob was submitted again and the
\* page went on to the completion page
C38_Witness ==
  /\ manualRoute = "complete"
  /\ \E b \in 0..(MaxQuestions - 1) : manualSubmitted[b] = 2

\* the request names a candidate registered for its interview
ValidCandidate(r) ==
  r.candidate_id # Null /\ getCandidate(r.interview_id, r.candidate_id)

\* C39: the upload route issues a token only for a request that carries a
\* candidate_id of a candidate registered for that interview; any other token
\* request is answered with status 500 and no token, and issues no token and
\* saves no recording; an issued token's payload carries the request's
\* interview id, candidate id and question index.
C39_TokenOnlyForKnownCandidate ==
  /\ [](\A t \in uploadTokens : ValidCandidate(t))
  /\ [](uploadRequest.type = "token" =>
          /\ ~ValidCandidate(uploadRequest) =>
                uploadResponse = [status |-> 500, token |-> {}]
          /\ \A t \in uploadResponse.token :
                /\ uploadResponse.status = 200
                /\ t.interview_id = uploadRequest.interview_id
                /\ t.candidate_id = uploadRequest.candidate_id
                /\ t.question_index = uploadRequest.question_index
                /\ t \in uploadTokens)
  /\ [][uploadRequest'.type = "token" /\ ~ValidCandidate(uploadRequest') =>
          UNCHANGED <<uploadTokens, uploadRecordings>>]_vars

\* a token was issued and its recording saved, and the request handled last
\* was refused for a candidate of another interview
C39_Witness ==
  /\ uploadRecordings # {}
  /\ uploadRequest.type = "token" /\ uploadRequest.candidate_id # Null
  /\ ~ValidCandidate(uploadRequest)
  /\ uploadResponse.status = 500

\* the errors the claim calls retryable, among those fn settles with
ClaimedRetryable(e) ==
  \/ e.message \in {"TypeError: fetch failed", "read ECONNRESET"}
  \/ e.status \in {429, 500, 503}

\* C40: retryAPICall calls fn at most maxRetries times (2 when the argument
\* is omitted); it returns exactly when a call of fn succeeds, with no call
\* after it; it throws the error of the last call at once when that error is
\* not retryable, and when the last allowed call fails; every other failure
\* is followed by a wait of delayMs * attempt, which has passed before the
\* next call.
C40_RetryAPICall ==
  /\ [](LET r == retryCall
            n == Len(r.outcomes)
        IN /\ r.calls <= r.maxRetries
           /\ r.pc # "idle" => r.maxRetries \in {2} \cup 1..MaxRetriesTried
           /\ n = IF r.pc = "call" THEN r.calls - 1 ELSE r.calls
           /\ \A k \in 1..n :
                IF r.outcomes[k].kind = "value"
                THEN k = n /\ r.pc = "returned"
                ELSE IF ~ClaimedRetryable(r.outcomes[k]) \/ k = r.maxRetries
                THEN k = n /\ r.pc = "thrown"
                ELSE /\ k <= Len(r.waits)
                     /\ r.waits[k] = r.delayMs * k
                     /\ k = n => r.pc \in {"wait", "call"}
           /\ r.pc \in {"returned", "thrown"} => n > 0)
  /\ [][retryCall.pc = "wait" /\ retryCall'.pc = "call" =>
          /\ retryCall.elapsed >= retryCall.delayMs * retryCall.attempt
          /\ retryCall'.attempt = retryCall.attempt + 1]_vars

\* with the defaults the first call failed with a retryable error and, after
\* the wait, the second and last allowed call failed too
C40_Witness ==
  /\ retryCall.pc = "thrown" /\ retryCall.maxRetries = 2
  /\ retryCall.delayMs = 1000
  /\ retryCall.calls = 2 /\ retryCall.waits = <<1000>>
  /\ ClaimedRetryable(retryCall.outcomes[2])
====
